---- MODULE Spec2Model ----
(***************************************************************************)
(* RetroVisionAI: the multi-provider fallback, JSON coercion, TTL cache    *)
(* and request handlers of the two back ends of the repository:            *)
(*   - the Supabase edge functions (deconstruct, simulate, narrative,      *)
(*     generate-image), which are stateless apart from their environment;  *)
(*   - the Express server (server/routes/openai.js) with its in-memory     *)
(*     caches (utils/cache.js) and its rate limiter.                       *)
(* The two back ends are separate processes; `deployment` says which one   *)
(* a behaviour is about.                                                   *)
(***************************************************************************)
EXTENDS Integers, Sequences, FiniteSets, TLC

VARIABLES
  deployment,   \* "edge" | "express" | "cache" | "limiter" | "index" | "camera":
                \* the process or component under analysis
  \* ---- edge functions ----------------------------------------------------
  env,          \* the credentials present in Deno.env (a set of variable names)
  efn,          \* the edge function that received the current request
  ereq,         \* the current request of the edge function
  epc,          \* "idle" | "loop" | "await" | "done"
  idx,          \* position of the fallback loop in the provider list
  invoked,      \* providers whose adapter was called, in call order
  fetches,      \* providers for which a network request was issued, in order
  inflight,     \* providers whose network request has not completed yet
  failures,     \* the errors caught by the fallback loop, in order
  lastError,    \* the loop's lastError variable
  returned,     \* what the fallback loop returned: the provider and its output
  usedFallback, \* the "creating fallback" log line of the coercion step
  eresp,        \* the response of the edge function
  \* ---- Express server and its caches -----------------------------------
  now,          \* Date.now(), in milliseconds
  ticks,        \* how often the clock has advanced
  started,      \* how many operations (requests, accessor sets) have begun
  caches,       \* the four NodeCache instances: namespace -> set of entries
  got,          \* the lookup just made through a cache accessor on its own
  lastSet,      \* per namespace and key, the value, time and subject of the last set
  rateLimits,   \* the rateLimits Map: client ip -> times of the admitted requests
  reqs,         \* the requests of the Express server, by arrival number
  passed,       \* per client of the limiter runs, a route and an ip, the times
                \* of the requests the route's limiter passed on to the handler
  \* ---- the pages of the web client --------------------------------------
  index,        \* the Index page: its React state and the runs of its handlers
  camera        \* the CameraCapture dialog: its React state, effects and streams

evars == <<env, efn, ereq, epc, idx, invoked, fetches, inflight, failures,
           lastError, returned, usedFallback, eresp>>

cvars == <<now, ticks, started, caches, got, lastSet, rateLimits, reqs, passed>>

uvars == <<index, camera>>

vars == <<deployment, evars, cvars, uvars>>

(***************************************************************************)
(* Bounds of the model.                                                    *)
(***************************************************************************)
MaxTextLen == 2

(***************************************************************************)
(* Strings are sequences of one-character strings.  A request field that   *)
(* is missing (undefined) is the one-element sequence Undefined, which is  *)
(* no string of characters.                                                *)
(***************************************************************************)
Undefined == <<"undefined">>

Rep(c, n) == [i \in 1..n |-> c]

\* JavaScript truthiness of a string-or-undefined field: !x is Falsy(x).
Falsy(s) == s = Undefined \/ s = <<>>

\* String.prototype.trim
trim(s) ==
  IF \A i \in 1..Len(s) : s[i] = " " THEN <<>>
  ELSE LET a == CHOOSE i \in 1..Len(s) : s[i] # " " /\ \A j \in 1..(i-1) : s[j] = " "
           b == CHOOSE i \in 1..Len(s) : s[i] # " " /\ \A j \in (i+1)..Len(s) : s[j] = " "
       IN  SubSeq(s, a, b)

LowerLetters == <<"a", "b", "c", "d", "e", "f", "g", "h", "i", "j", "k", "l", "m",
                  "n", "o", "p", "q", "r", "s", "t", "u", "v", "w", "x", "y", "z">>
UpperLetters == <<"A", "B", "C", "D", "E", "F", "G", "H", "I", "J", "K", "L", "M",
                  "N", "O", "P", "Q", "R", "S", "T", "U", "V", "W", "X", "Y", "Z">>
DigitChars == <<"0", "1", "2", "3", "4", "5", "6", "7", "8", "9">>

IndexIn(c, tbl) == CHOOSE i \in 1..Len(tbl) : tbl[i] = c
OccursIn(c, tbl) == \E i \in 1..Len(tbl) : tbl[i] = c

LowerChar(c) == IF OccursIn(c, UpperLetters) THEN LowerLetters[IndexIn(c, UpperLetters)] ELSE c

\* The byte of an ASCII character (Buffer.from(string)).
CharCode(c) ==
  IF OccursIn(c, LowerLetters) THEN 96 + IndexIn(c, LowerLetters)
  ELSE IF OccursIn(c, UpperLetters) THEN 64 + IndexIn(c, UpperLetters)
  ELSE IF OccursIn(c, DigitChars) THEN 47 + IndexIn(c, DigitChars)
  ELSE IF c = " " THEN 32
  ELSE IF c = "_" THEN 95
  ELSE 63

\* Buffer.toString('base64'): the sextets of the encoding, 64 for the "=" padding.
base64(s) ==
  LET n == Len(s)
      groups == (n + 2) \div 3
      byte(j) == IF j <= n THEN CharCode(s[j]) ELSE 0
      sextet(i) ==
        LET g == (i - 1) \div 4
            pos == (i - 1) % 4
            b1 == byte(3 * g + 1)
            b2 == byte(3 * g + 2)
            b3 == byte(3 * g + 3)
        IN  CASE pos = 0 -> b1 \div 4
              [] pos = 1 -> (b1 % 4) * 16 + (b2 \div 16)
              [] pos = 2 -> IF 3 * g + 2 > n THEN 64 ELSE (b2 % 16) * 4 + (b3 \div 64)
              [] pos = 3 -> IF 3 * g + 3 > n THEN 64 ELSE b3 % 64
  IN  [i \in 1..(4 * groups) |-> sextet(i)]

\* String.prototype.slice(0, n)
slice0(s, n) == SubSeq(s, 1, IF Len(s) < n THEN Len(s) ELSE n)

\* String.prototype.toLowerCase
toLowerCase(s) == [i \in 1..Len(s) |-> LowerChar(s[i])]

(***************************************************************************)
(* JSON texts and values.  A model output is a sequence of lexical tokens: *)
(*   "{" "}" "[" "]"   the brackets themselves                             *)
(*   "k"   an object member foreign to both schemas ("foo":1)              *)
(*   "v"   a truthy scalar literal (1, "text", true)                       *)
(*   "z"   a falsy scalar literal (null, 0, false, "")                     *)
(*   "t"   prose that is no JSON                                           *)
(*   "D"   the members of a decomposition that has the declared fields     *)
(*   "P"   a "pathways" member whose entries are well formed               *)
(*   "Q"   a "pathways" member that is not (empty list, score 11, ...)     *)
(*   "Dfb" "Pfb"  the members of the two synthetic fallback objects        *)
(* Commas and white space are left out.  "D", "P" and "Q" contain brackets *)
(* of their own, so they occur only inside an enclosing object.            *)
(***************************************************************************)
BraceTokens == {"{", "}", "[", "]", "k", "v", "z", "t"}
MemberTokens == {"k", "D", "P", "Q", "Dfb", "Pfb"}
ScalarTokens == {"v", "z"}

KeyOf(m) == IF m \in {"P", "Q", "Pfb"} THEN "pathways"
            ELSE IF m \in {"D", "Dfb"} THEN "name" ELSE "foo"

\* A JSON value: t is its kind, m the members of an object, e the elements of an array.
JVal(t, m, e) == [t |-> t, m |-> m, e |-> e]
NoValue == JVal("none", {}, <<>>)
JNull == JVal("falsy", {}, <<>>)
ParseFail == [ok |-> FALSE, val |-> NoValue, next |-> 0]
ParseOk(v, n) == [ok |-> TRUE, val |-> v, next |-> n]

\* Inside a string literal (between two "q", the double quote) the tokens
\* "u{" and "u}" are the escapes \u007b and \u007d of the two braces.
unescape(c) == IF c = "u{" THEN "{" ELSE IF c = "u}" THEN "}" ELSE c

\* A string value: its characters, as the elements.
JString(chars) == JVal("str", {}, [x \in 1..Len(chars) |-> JVal("chr", {chars[x]}, <<>>)])

RECURSIVE parseValue(_, _)
RECURSIVE parseElements(_, _, _)

\* One JSON value starting at token i of s.
parseValue(s, i) ==
  IF i > Len(s) THEN ParseFail
  ELSE IF s[i] \in ScalarTokens
    THEN ParseOk(JVal(IF s[i] = "v" THEN "truthy" ELSE "falsy", {}, <<>>), i + 1)
  ELSE IF s[i] = "{"
    THEN LET stops == {j \in (i+1)..Len(s) : s[j] \notin MemberTokens}
         IN  IF stops = {} THEN ParseFail
             ELSE LET j == CHOOSE x \in stops : \A y \in stops : x <= y
                      \* a later member with the same key replaces an earlier one
                      kept == {x \in (i+1)..(j-1) :
                                 \A y \in (x+1)..(j-1) : KeyOf(s[y]) # KeyOf(s[x])}
                  IN  IF s[j] = "}"
                      THEN ParseOk(JVal("obj", {s[x] : x \in kept}, <<>>), j + 1)
                      ELSE ParseFail
  ELSE IF s[i] = "[" THEN parseElements(s, i + 1, <<>>)
  ELSE IF s[i] = "q"
    THEN LET ends == {j \in (i+1)..Len(s) : s[j] = "q"}
         IN  IF ends = {} THEN ParseFail
             ELSE LET j == CHOOSE x \in ends : \A y \in ends : x <= y
                  IN  ParseOk(JString([x \in 1..(j - i - 1) |-> unescape(s[i + x])]), j + 1)
  ELSE ParseFail

parseElements(s, i, acc) ==
  IF i > Len(s) THEN ParseFail
  ELSE IF s[i] = "]" THEN ParseOk(JVal("arr", {}, acc), i + 1)
  ELSE LET r == parseValue(s, i)
       IN  IF r.ok THEN parseElements(s, r.next, Append(acc, r.val)) ELSE ParseFail

\* JSON.parse of a text: the whole text must be one value.
JSONparse(s) ==
  LET r == parseValue(s, 1)
  IN  IF r.ok /\ r.next = Len(s) + 1 THEN [ok |-> TRUE, val |-> r.val]
      ELSE [ok |-> FALSE, val |-> NoValue]

RECURSIVE stringify(_)
RECURSIVE stringifyAll(_)
RECURSIVE membersOf(_)

\* The members of an object, one after the other.
membersOf(m) ==
  IF m = {} THEN <<>> ELSE LET x == CHOOSE y \in m : TRUE IN <<x>> \o membersOf(m \ {x})

\* JSON.stringify of a value: braces inside a string are written as they are.
stringify(v) ==
  CASE v.t = "obj" -> <<"{">> \o membersOf(v.m) \o <<"}">>
    [] v.t = "arr" -> <<"[">> \o stringifyAll(v.e) \o <<"]">>
    [] v.t = "str" -> <<"q">> \o [x \in 1..Len(v.e) |-> CHOOSE c \in v.e[x].m : TRUE] \o <<"q">>
    [] v.t = "truthy" -> <<"v">>
    [] OTHER -> <<"z">>

stringifyAll(e) == IF e = <<>> THEN <<>> ELSE stringify(Head(e)) \o stringifyAll(Tail(e))

\* A provider's message content that is no string at all (content: null).
NullContent == <<"null-content">>

\* response.match(/\{[\s\S]*\}/): from the first "{" to the last "}" after it.
jsonMatch(s) ==
  LET opens == {i \in 1..Len(s) : s[i] = "{"}
  IN  IF opens = {} THEN [found |-> FALSE, str |-> <<>>]
      ELSE LET a == CHOOSE i \in opens : \A j \in opens : i <= j
               closes == {i \in (a+1)..Len(s) : s[i] = "}"}
           IN  IF closes = {} THEN [found |-> FALSE, str |-> <<>>]
               ELSE LET b == CHOOSE i \in closes : \A j \in closes : j <= i
                    IN  [found |-> TRUE, str |-> SubSeq(s, a, b)]

\* The fallback structures of the two edge functions.
fallbackDecomposition == JVal("obj", {"Dfb"}, <<>>)
fallbackSimulations == JVal("obj", {"Pfb"}, <<>>)

\* The try/catch around match + JSON.parse of the edge functions:
\* [val, fallback].  response.match throws on a non-string, inside the try.
coerce(response, fallback) ==
  IF response = NullContent THEN [val |-> fallback, fallback |-> TRUE]
  ELSE LET jm == jsonMatch(response)
           jsonStr == IF jm.found THEN jm.str ELSE response
           p == JSONparse(jsonStr)
       IN  IF p.ok THEN [val |-> p.val, fallback |-> FALSE]
           ELSE [val |-> fallback, fallback |-> TRUE]

\* The declared schemas (the system prompts' "exact structure").
ConformsDecomposition(v) == v.t = "obj" /\ (v.m \cap {"D", "Dfb"}) # {}
ConformsSimulation(v) == v.t = "obj" /\ (v.m \cap {"P", "Pfb"}) # {} /\ "Q" \notin v.m

RECURSIVE SeqsUpTo(_, _)
SeqsUpTo(S, n) ==
  IF n = 0 THEN {<<>>}
  ELSE LET shorter == SeqsUpTo(S, n - 1)
       IN  shorter \cup {Append(s, c) : s \in {x \in shorter : Len(x) = n - 1}, c \in S}

SampleTexts ==
  { <<"{", "D", "}">>, <<"{", "P", "}">>, <<"{", "Q", "}">>, <<"{", "k", "}">>,
    <<"t", "{", "D", "}", "t">>, <<"t", "{", "P", "}", "t">>,
    <<"{", "D", "}", "t", "{", "k", "}">>, <<"{", "P", "}", "t", "{", "k", "}">>,
    <<"[", "{", "P", "}", "]">>, <<"t", "t", "t">>,
    <<"q", "t", "q">>, <<"q", "u{", "u}", "q">> }

RawTexts == SeqsUpTo(BraceTokens, MaxTextLen) \cup SampleTexts

\* What a chat-completion provider can hand back as message content.
ProviderOutputs == RawTexts \cup {NullContent}

(***************************************************************************)
(* Edge functions: provider adapters and the fallback loop.                *)
(***************************************************************************)
EdgeFunctions == {"deconstruct", "simulate", "narrative", "generate-image"}

\* The providers array of callLLM (deconstruct, simulate, narrative) and of
\* generateImage, in the order the source lists them.
providers(fn) ==
  CASE fn = "deconstruct" -> <<"Groq", "Together", "HuggingFace">>
    [] fn = "simulate" -> <<"Groq", "Together">>
    [] fn = "narrative" -> <<"Groq">>
    [] fn = "generate-image" -> <<"HuggingFace", "Pollinations">>

\* The environment variable an adapter reads; Pollinations reads none.
credentialOf(p) ==
  CASE p = "Groq" -> "GROQ_API_KEY"
    [] p = "Together" -> "TOGETHER_API_KEY"
    [] p = "HuggingFace" -> "HUGGING_FACE_API_KEY"
    [] p = "Pollinations" -> "none"

Credentials == {"GROQ_API_KEY", "TOGETHER_API_KEY", "HUGGING_FACE_API_KEY"}

\* An Error object: who threw it, why, and whether its message carries the
\* remote response body verbatim.
Err(p, kind, raw) == [provider |-> p, kind |-> kind, raw |-> raw]
NoError == Err("none", "none", FALSE)
AllProvidersFailed == Err("none", "all-failed", FALSE)

\* The ways an adapter's network call can fail once it was issued: a non-ok
\* status, a transport failure of fetch, and for the chat-completion
\* adapters a body without choices[0].message.
failureKinds(fn, p) ==
  IF fn # "generate-image" /\ p \in {"Groq", "Together"}
  THEN {"upstream", "transport", "shape"}
  ELSE {"upstream", "transport"}

\* Every adapter puts the text of a non-ok response into its error message.
adapterErrorWithResponseText(fn, p, kind) == Err(p, kind, kind = "upstream")

\* generateWithHuggingFace puts the response text into its error message.
adapterError(fn, p, kind) ==
  Err(p, kind, fn = "generate-image" /\ p = "HuggingFace" /\ kind = "upstream")

\* The image object an image adapter returns.
imageOf(p) == JVal("image", {p}, <<>>)

\* What an adapter can return when its call succeeds.
adapterOutputs(fn, p) ==
  IF fn = "generate-image" THEN {<<"image">>}
  ELSE IF p = "HuggingFace" THEN RawTexts   \* generated_text || ''
  ELSE ProviderOutputs                       \* choices[0].message.content

(***************************************************************************)
(* Edge functions: requests and responses.                                 *)
(***************************************************************************)
MaxInventionLen == 100

EdgeReq(method, malformed, invention, era, prompt, pathwayData, decomposition) ==
  [method |-> method, malformed |-> malformed, invention |-> invention, era |-> era,
   prompt |-> prompt, pathwayData |-> pathwayData, decomposition |-> decomposition]

NoRequest == EdgeReq("none", FALSE, Undefined, Undefined, Undefined, FALSE, FALSE)

SubjectInputs ==
  {Undefined, <<>>, <<" ">>, <<" ", " ">>, <<"a">>, <<" ", "a">>,
   Rep("a", MaxInventionLen), Rep("a", MaxInventionLen + 1)}

EraInputs == {Undefined, <<>>, <<"1", "8", "0", "0", "s">>}

EdgeRequests(fn) ==
  {EdgeReq("OPTIONS", FALSE, Undefined, Undefined, Undefined, FALSE, FALSE),
   EdgeReq("OPTIONS", TRUE, Undefined, Undefined, Undefined, FALSE, FALSE),
   EdgeReq("POST", TRUE, Undefined, Undefined, Undefined, FALSE, FALSE)}
  \cup
  CASE fn = "deconstruct" ->
         {EdgeReq("POST", FALSE, i, Undefined, Undefined, FALSE, FALSE) : i \in SubjectInputs}
    [] fn = "simulate" ->
         {EdgeReq("POST", FALSE, i, e, Undefined, FALSE, d) :
            i \in SubjectInputs, e \in EraInputs, d \in BOOLEAN}
    [] fn = "narrative" ->
         {EdgeReq("POST", FALSE, Undefined, e, Undefined, pd, FALSE) :
            e \in EraInputs, pd \in BOOLEAN}
    [] fn = "generate-image" ->
         {EdgeReq("POST", FALSE, Undefined, e, p, pd, FALSE) :
            p \in SubjectInputs, e \in {Undefined, <<"1", "8", "0", "0", "s">>}, pd \in BOOLEAN}

\* A Response: corsHeaders is whether the cors headers are on it.
Resp(status, corsHeaders, kind, error, details, value) ==
  [status |-> status, corsHeaders |-> corsHeaders, kind |-> kind, error |-> error,
   details |-> details, value |-> value]

NoResponse == Resp(0, FALSE, "none", "", NoError, NoValue)

\* The validation of a parsed body; "" when the request passes.
edgeValidate(fn, r) ==
  CASE fn = "deconstruct" ->
         IF Falsy(r.invention) \/ Len(trim(r.invention)) = 0
         THEN "Invention name is required"
         ELSE IF Len(r.invention) > MaxInventionLen
         THEN "Invention name too long (max 100 characters)"
         ELSE ""
    [] fn = "simulate" ->
         IF Falsy(r.invention) \/ Falsy(r.era) THEN "Invention and era are required" ELSE ""
    [] fn = "narrative" ->
         IF ~r.pathwayData \/ Falsy(r.era) THEN "Pathway data and era are required" ELSE ""
    [] fn = "generate-image" ->
         IF Falsy(r.prompt) \/ Len(trim(r.prompt)) = 0 THEN "Prompt is required" ELSE ""

\* The message of the catch block of each serve handler.
edgeFailureMessage(fn) ==
  CASE fn = "deconstruct" -> "Failed to deconstruct invention"
    [] fn = "simulate" -> "Failed to simulate invention pathways"
    [] fn = "narrative" -> "Failed to generate narrative"
    [] fn = "generate-image" -> "Failed to generate image"

\* A catch block that answers without the cors headers.
edgeCatchWithoutCors(fn, error) ==
  Resp(500, FALSE, "error", edgeFailureMessage(fn), error, NoValue)

\* The catch block of a serve handler.
edgeCatch(fn, error) == Resp(500, TRUE, "error", edgeFailureMessage(fn), error, NoValue)

\* The handler after callLLM / generateImage returned `out`:
\* [resp, fallback].
edgeComplete(fn, p, out) ==
  CASE fn = "deconstruct" ->
         LET c == coerce(out, fallbackDecomposition)
         IN  [resp |-> Resp(200, TRUE, "result", "", NoError, c.val), fallback |-> c.fallback]
    [] fn = "simulate" ->
         LET c == coerce(out, fallbackSimulations)
         IN  [resp |-> Resp(200, TRUE, "result", "", NoError, c.val), fallback |-> c.fallback]
    [] fn = "narrative" ->
         \* narrative.trim() throws on a content that is no string
         IF out = NullContent
         THEN [resp |-> edgeCatch(fn, Err("none", "type", FALSE)), fallback |-> FALSE]
         ELSE [resp |-> Resp(200, TRUE, "result", "", NoError, JVal("text", {}, <<>>)),
               fallback |-> FALSE]
    [] fn = "generate-image" ->
         [resp |-> Resp(200, TRUE, "result", "", NoError, imageOf(p)), fallback |-> FALSE]


(***************************************************************************)
(* Express server: requests.                                               *)
(***************************************************************************)
MaxStarted == 2

ClientIPs == {"ip1"}

\* The routes that have a limiter.
LimitedRoutes == {"deconstruct", "simulate", "generate-image"}

\* req.body (and req.file); pathway: pathwayData and era are both given.
Body(invention, era, creativity, decomposition, prompt, style, size, pathway, file) ==
  [invention |-> invention, era |-> era, creativity |-> creativity,
   decomposition |-> decomposition, prompt |-> prompt, style |-> style, size |-> size,
   pathway |-> pathway, file |-> file]

NoBody == Body(Undefined, Undefined, -1, FALSE, Undefined, Undefined, Undefined, FALSE, Undefined)

\* res.status(..).json(..): cached is the body's cached field.
Answer(status, error, cached, value) ==
  [status |-> status, error |-> error, cached |-> cached, value |-> value]

NoAnswer == Answer(0, "", FALSE, NoValue)

NoLook ==
  [ns |-> "none", k |-> <<>>, present |-> FALSE, fresh |-> FALSE, by |-> "none", v |-> NoValue]

\* A request of the Express server: its position, its body, the locals of
\* its handler, and what it has done so far.
NewReq(route, ip, body) ==
  [pc |-> "start", route |-> route, ip |-> ip, body |-> body,
   sInvention |-> Undefined, sEra |-> Undefined, validatedCreativity |-> -1,
   response |-> Undefined,   \* the content callGPT returned last
   calls |-> <<>>,      \* the external API calls made, in order
   reads |-> {},        \* the cache namespaces looked up
   writes |-> <<>>,     \* the cache entries stored, in order
   look |-> NoLook,     \* the handler's own "Check cache first" lookup
   unlinked |-> FALSE,  \* fs.unlink(req.file.path) was called
   moderation |-> "none",  \* how client.moderations.create ended
   resp |-> NoAnswer]

FreeSlot == [NewReq("none", "none", NoBody) EXCEPT !.pc = "free"]

NoReturn == [provider |-> "none", out |-> <<>>]

Namespaces == {"deconstruction", "simulation", "image", "audio"}

NoLookup ==
  [ns |-> "none", k |-> <<>>, v |-> NoValue, at |-> 0, setV |-> NoValue, setAt |-> 0,
   subject |-> <<>>, setSubject |-> <<>>]

CacheIdle ==
  /\ now = 0
  /\ ticks = 0
  /\ started = 0
  /\ caches = [ns \in Namespaces |-> {}]
  /\ got = NoLookup
  /\ lastSet = {}
  /\ rateLimits = [ip \in ClientIPs |-> <<>>]
  /\ reqs = [id \in 1..MaxStarted |-> FreeSlot]
  /\ passed = <<>>

\* Neither page is mounted.
NoPage == [pc |-> "unmounted"]

UiIdle == index = NoPage /\ camera = NoPage

EdgeIdle ==
  /\ efn = "none"
  /\ ereq = NoRequest
  /\ epc = "idle"
  /\ idx = 0
  /\ invoked = <<>>
  /\ fetches = <<>>
  /\ inflight = {}
  /\ failures = <<>>
  /\ lastError = NoError
  /\ returned = NoReturn
  /\ usedFallback = FALSE
  /\ eresp = NoResponse

InitEdge ==
  /\ deployment = "edge"
  /\ env \in SUBSET Credentials
  /\ EdgeIdle
  /\ UiIdle
  /\ CacheIdle

\* serve(async (req) => ...) up to the first provider call.
EdgeReceive(fn, r) ==
  /\ deployment = "edge"
  /\ epc = "idle"
  /\ efn' = fn
  /\ ereq' = r
  /\ invoked' = <<>>
  /\ fetches' = <<>>
  /\ inflight' = {}
  /\ failures' = <<>>
  /\ lastError' = NoError
  /\ returned' = NoReturn
  /\ usedFallback' = FALSE
  /\ IF r.method = "OPTIONS"
     THEN /\ eresp' = Resp(200, TRUE, "options", "", NoError, NoValue)
          /\ epc' = "done"
          /\ idx' = 0
     ELSE IF r.malformed
     THEN /\ eresp' = edgeCatch(fn, Err("none", "syntax", FALSE))   \* req.json() throws
          /\ epc' = "done"
          /\ idx' = 0
     ELSE IF edgeValidate(fn, r) # ""
     THEN /\ eresp' = Resp(400, TRUE, "error", edgeValidate(fn, r), NoError, NoValue)
          /\ epc' = "done"
          /\ idx' = 0
     ELSE /\ eresp' = NoResponse
          /\ epc' = "loop"
          /\ idx' = 1
  /\ UNCHANGED <<deployment, env, cvars, uvars>>

\* A fallback loop that records only the first error it catches.
EdgeFailKeepsFirst(error) ==
  /\ failures' = Append(failures, error)
  /\ lastError' = IF lastError = NoError THEN error ELSE lastError
  /\ IF idx < Len(providers(efn))
     THEN /\ idx' = idx + 1
          /\ epc' = "loop"
          /\ eresp' = eresp
     ELSE /\ idx' = idx
          /\ epc' = "done"
          /\ eresp' = edgeCatch(efn, lastError')

\* The catch of the fallback loop: record the error and go on; after the
\* last provider, throw lastError to the handler's catch block.
EdgeFail(error) ==
  /\ failures' = Append(failures, error)
  /\ lastError' = error
  /\ IF idx < Len(providers(efn))
     THEN /\ idx' = idx + 1
          /\ epc' = "loop"
          /\ eresp' = eresp
     ELSE /\ idx' = idx
          /\ epc' = "done"
          /\ eresp' = edgeCatch(efn, IF error = NoError THEN AllProvidersFailed ELSE error)

\* An adapter that sends its request whether or not the credential is set.
EdgeInvokeNoCredentialCheck ==
  /\ deployment = "edge"
  /\ epc = "loop"
  /\ LET p == providers(efn)[idx]
     IN  /\ invoked' = Append(invoked, p)
         /\ fetches' = Append(fetches, p)
         /\ inflight' = inflight \cup {p}
         /\ epc' = "await"
         /\ UNCHANGED <<idx, failures, lastError, eresp>>
  /\ UNCHANGED <<cvars, uvars, deployment, env, efn, ereq, returned, usedFallback>>

\* One turn of the loop: call the adapter of providers[idx].  An adapter
\* without its credential throws before any fetch.
EdgeInvoke ==
  /\ deployment = "edge"
  /\ epc = "loop"
  /\ LET p == providers(efn)[idx]
     IN  /\ invoked' = Append(invoked, p)
         /\ IF credentialOf(p) # "none" /\ credentialOf(p) \notin env
            THEN /\ EdgeFail(Err(p, "config", FALSE))
                 /\ UNCHANGED <<fetches, inflight>>
            ELSE /\ fetches' = Append(fetches, p)
                 /\ inflight' = inflight \cup {p}
                 /\ epc' = "await"
                 /\ UNCHANGED <<idx, failures, lastError, eresp>>
  /\ UNCHANGED <<cvars, uvars, deployment, env, efn, ereq, returned, usedFallback>>

\* A fallback loop that does not return on success but goes on to the next
\* provider.
EdgeProviderSucceedsNoReturn ==
  /\ deployment = "edge"
  /\ epc = "await"
  /\ LET p == providers(efn)[idx]
     IN  \E out \in adapterOutputs(efn, p) :
           LET c == edgeComplete(efn, p, out)
           IN  /\ returned' = [provider |-> p, out |-> out]
               /\ IF idx < Len(providers(efn))
                  THEN /\ idx' = idx + 1
                       /\ epc' = "loop"
                       /\ UNCHANGED <<eresp, usedFallback>>
                  ELSE /\ idx' = idx
                       /\ epc' = "done"
                       /\ eresp' = c.resp
                       /\ usedFallback' = c.fallback
  /\ inflight' = {}
  /\ UNCHANGED <<cvars, uvars, deployment, env, efn, ereq, invoked, fetches, failures, lastError>>

\* The awaited adapter call succeeds: the loop returns its result and the
\* handler builds the response.
EdgeProviderSucceeds ==
  /\ deployment = "edge"
  /\ epc = "await"
  /\ LET p == providers(efn)[idx]
     IN  \E out \in adapterOutputs(efn, p) :
           LET c == edgeComplete(efn, p, out)
           IN  /\ returned' = [provider |-> p, out |-> out]
               /\ eresp' = c.resp
               /\ usedFallback' = c.fallback
  /\ inflight' = {}
  /\ epc' = "done"
  /\ UNCHANGED <<cvars, uvars, deployment, env, efn, ereq, idx, invoked, fetches, failures, lastError>>

\* The loop goes on to the next provider while the failed call's request is
\* still open.
EdgeProviderFailsStillOpen ==
  /\ deployment = "edge"
  /\ epc = "await"
  /\ LET p == providers(efn)[idx]
     IN  \E kind \in failureKinds(efn, p) : EdgeFail(adapterError(efn, p, kind))
  /\ UNCHANGED <<cvars, uvars, deployment, env, efn, ereq, invoked, fetches, returned, usedFallback,
                 inflight>>

\* The awaited adapter call fails.
EdgeProviderFails ==
  /\ deployment = "edge"
  /\ epc = "await"
  /\ LET p == providers(efn)[idx]
     IN  \E kind \in failureKinds(efn, p) : EdgeFail(adapterError(efn, p, kind))
  /\ inflight' = {}
  /\ UNCHANGED <<cvars, uvars, deployment, env, efn, ereq, invoked, fetches, returned, usedFallback>>

\* The response is sent; the function waits for the next request.
EdgeRespond ==
  /\ deployment = "edge"
  /\ epc = "done"
  /\ efn' = "none"
  /\ ereq' = NoRequest
  /\ epc' = "idle"
  /\ idx' = 0
  /\ invoked' = <<>>
  /\ fetches' = <<>>
  /\ inflight' = {}
  /\ failures' = <<>>
  /\ lastError' = NoError
  /\ returned' = NoReturn
  /\ usedFallback' = FALSE
  /\ eresp' = NoResponse
  /\ UNCHANGED <<deployment, env, cvars, uvars>>

NextEdge ==
  \/ \E fn \in EdgeFunctions : \E r \in EdgeRequests(fn) : EdgeReceive(fn, r)
  \/ EdgeInvoke
  \/ EdgeProviderSucceeds
  \/ EdgeProviderFails
  \/ EdgeRespond

SpecEdge == InitEdge /\ [][NextEdge]_vars

(***************************************************************************)
(* server/utils/cache.js: four NodeCache instances and their accessors.    *)
(* An entry is [k, v, t, by]: key, value, the time it expires, and the     *)
(* route whose handler stored it.                                          *)
(***************************************************************************)
\* new NodeCache({ stdTTL }): seconds.
\* Four caches constructed with one and the same stdTTL.
stdTTLOneHour(ns) == 3600

\* new NodeCache({ stdTTL }): the seconds an entry of the namespace lives.
stdTTL(ns) ==
  CASE ns = "deconstruction" -> 3600
    [] ns = "simulation" -> 1800
    [] ns = "image" -> 7200
    [] ns = "audio" -> 600

\* node-cache keeps an entry while its expiry time is not below Date.now().
alive(e, t) == ~(e.t # 0 /\ e.t < t)

\* A set that adds its entry and leaves an earlier one of the key in place.
cacheSetKeepsEarlier(c, ns, key, val, by, t) ==
  [c EXCEPT ![ns] = @ \cup {[k |-> key, v |-> val, t |-> t + stdTTL(ns) * 1000, by |-> by]}]

\* NodeCache.set(key, value): whole-value replace, expiry from stdTTL.
cacheSet(c, ns, key, val, by, t) ==
  [c EXCEPT ![ns] = {e \in @ : e.k # key}
                      \cup {[k |-> key, v |-> val, t |-> t + stdTTL(ns) * 1000, by |-> by]}]

\* Whether NodeCache.get(key) finds an entry it still serves.
cacheHas(c, ns, key, t) == \E e \in c[ns] : e.k = key /\ alive(e, t)

\* NodeCache.get(key): the value, or undefined (NoValue).
cacheGet(c, ns, key, t) ==
  IF cacheHas(c, ns, key, t)
  THEN (CHOOSE e \in c[ns] : e.k = key /\ alive(e, t)).v
  ELSE NoValue

\* NodeCache.get deletes the entry it finds expired.
cacheAfterGet(c, ns, key, t) ==
  [c EXCEPT ![ns] = {e \in @ : e.k # key \/ alive(e, t)}]

\* The keys the accessors build.
deconstructionKey(invention) == <<"deconstruct_">> \o trim(toLowerCase(invention))

creativityString(c) ==
  CASE c = 0 -> <<"0">>
    [] c = 10 -> <<"1">>
    [] OTHER -> <<"0", ".", DigitChars[c + 1]>>

simulationKey(invention, era, creativity) ==
  <<"simulate_">> \o trim(toLowerCase(invention)) \o <<"_">>
    \o trim(toLowerCase(era)) \o <<"_">> \o creativityString(creativity)

imageKey(prompt) == <<"image_">> \o slice0(base64(prompt), 50)

audioKey(audioHash) == <<"audio_">> \o audioHash

getCachedDeconstruction(c, invention, t) ==
  cacheGet(c, "deconstruction", deconstructionKey(invention), t)
setCachedDeconstruction(c, invention, data, by, t) ==
  cacheSet(c, "deconstruction", deconstructionKey(invention), data, by, t)
getCachedSimulation(c, invention, era, creativity, t) ==
  cacheGet(c, "simulation", simulationKey(invention, era, creativity), t)
setCachedSimulation(c, invention, era, creativity, data, by, t) ==
  cacheSet(c, "simulation", simulationKey(invention, era, creativity), data, by, t)
getCachedImage(c, prompt, t) == cacheGet(c, "image", imageKey(prompt), t)
setCachedImage(c, prompt, data, by, t) == cacheSet(c, "image", imageKey(prompt), data, by, t)
getCachedTranscription(c, audioHash, t) == cacheGet(c, "audio", audioKey(audioHash), t)
\* A transcription setter that stores into the image cache.
setCachedTranscriptionInImageCache(c, audioHash, text, by, t) ==
  cacheSet(c, "image", audioKey(audioHash), text, by, t)
setCachedTranscription(c, audioHash, text, by, t) ==
  cacheSet(c, "audio", audioKey(audioHash), text, by, t)

(***************************************************************************)
(* The clock.                                                              *)
(***************************************************************************)
MaxTicks == 2
MaxExpressTicks == 1
MaxLimiterTicks == 2

windowMs == 300000

\* The instants at which a comparison of the program with Date.now() can
\* change its outcome: the next millisecond, the expiry time of an entry and
\* the millisecond after it, the end of the window of an admitted request.
\* The clock is observed only at these.
TickTargets ==
  {now + 1}
    \cup UNION {{e.t, e.t + 1} : e \in UNION {caches[ns] : ns \in Namespaces}}
    \cup UNION {{rateLimits[ip][i] + windowMs : i \in 1..Len(rateLimits[ip])} :
                 ip \in DOMAIN rateLimits}

Tick ==
  /\ deployment \in {"cache", "express", "limiter"}
  /\ ticks < (CASE deployment = "cache" -> MaxTicks
                 [] deployment = "express" -> MaxExpressTicks
                 [] deployment = "limiter" -> MaxLimiterTicks)
  /\ \E t \in TickTargets : t > now /\ now' = t
  /\ ticks' = ticks + 1

(***************************************************************************)
(* The cache accessors on their own.                                       *)
(***************************************************************************)
InitCache ==
  /\ deployment = "cache"
  /\ env = {}
  /\ EdgeIdle
  /\ UiIdle
  /\ CacheIdle

\* The arguments the accessors are tried with.
MaxSets == 2

AccessorSubjects == {<<" ", "A">>}
AccessorValues == {JVal("obj", {"D"}, <<>>), JNull}

accessorKey(ns, subject) ==
  CASE ns = "deconstruction" -> deconstructionKey(subject)
    [] ns = "simulation" -> simulationKey(subject, <<"1", "8", "0", "0", "s">>, 7)
    [] ns = "image" -> imageKey(subject)
    [] ns = "audio" -> audioKey(subject)

\* The cacheKey of POST /generate-image: prompt, style and size, with the
\* defaults of the destructuring.
technical == <<"t", "e", "c", "h", "n", "i", "c", "a", "l">>
size1024 == <<"1", "0", "2", "4", "x", "1", "0", "2", "4">>

imageCacheKey(body) ==
  body.prompt \o <<"_">> \o (IF body.style = Undefined THEN technical ELSE body.style)
    \o <<"_">> \o (IF body.size = Undefined THEN size1024 ELSE body.size)

\* A prompt long enough for the image key to leave out what follows it.
LongPrompt == Rep("a", 38)

\* The cacheKey texts POST /generate-image builds for the long prompt in two
\* styles.
LongImageSubjects ==
  {imageCacheKey([NoBody EXCEPT !.prompt = LongPrompt, !.style = st]) :
     st \in {Undefined, <<"s">>}}

AccessorSubjectsOf(ns) ==
  IF ns = "image" THEN AccessorSubjects \cup LongImageSubjects ELSE AccessorSubjects

noteSet(ls, ns, key, val, t, subject) ==
  {x \in ls : ~(x.ns = ns /\ x.k = key)}
    \cup {[ns |-> ns, k |-> key, v |-> val, at |-> t, subject |-> subject]}

\* setCached<Namespace>(subject, value)
AccessorSet(ns, subject, val) ==
  /\ deployment = "cache"
  /\ started < MaxSets
  /\ started' = started + 1
  /\ caches' = cacheSet(caches, ns, accessorKey(ns, subject), val, "accessor", now)
  /\ lastSet' = noteSet(lastSet, ns, accessorKey(ns, subject), val, now, subject)
  /\ got' = NoLookup
  /\ UNCHANGED <<deployment, evars, uvars, now, ticks, rateLimits, reqs, passed>>

\* getCached<Namespace>(subject), of a key that was set before
AccessorGet(ns, subject) ==
  /\ deployment = "cache"
  /\ \E x \in lastSet :
       /\ x.ns = ns
       /\ x.k = accessorKey(ns, subject)
       /\ got' = [ns |-> ns, k |-> x.k, v |-> cacheGet(caches, ns, x.k, now), at |-> now,
                  setV |-> x.v, setAt |-> x.at, subject |-> subject,
                  setSubject |-> x.subject]
  /\ caches' = cacheAfterGet(caches, ns, accessorKey(ns, subject), now)
  /\ UNCHANGED <<deployment, evars, uvars, now, ticks, started, lastSet, rateLimits, reqs, passed>>

CacheTick ==
  /\ Tick
  /\ got' = NoLookup
  /\ UNCHANGED <<deployment, evars, uvars, started, caches, lastSet, rateLimits, reqs, passed>>

NextCache ==
  \/ \E ns \in Namespaces, val \in AccessorValues :
       \E subject \in AccessorSubjectsOf(ns) : AccessorSet(ns, subject, val)
  \/ \E ns \in Namespaces : \E subject \in AccessorSubjectsOf(ns) : AccessorGet(ns, subject)
  \/ CacheTick

SpecCache == InitCache /\ [][NextCache]_vars

(***************************************************************************)
(* Express server: middleware.                                             *)
(***************************************************************************)
Truthy(v) == v.t \notin {"none", "falsy"}

\* String.prototype.includes
includes(s, sub) ==
  \E i \in 0..(Len(s) - Len(sub)) : \A j \in 1..Len(sub) : s[i + j] = sub[j]

MODERATION_KEYWORDS ==
  {<<"w", "e", "a", "p", "o", "n">>, <<"b", "o", "m", "b">>,
   <<"e", "x", "p", "l", "o", "s", "i", "v", "e">>, <<"p", "o", "i", "s", "o", "n">>,
   <<"d", "r", "u", "g">>, <<"i", "l", "l", "e", "g", "a", "l">>,
   <<"h", "a", "r", "m", "f", "u", "l">>, <<"d", "a", "n", "g", "e", "r", "o", "u", "s">>}

\* A keyword check that compares the text as it was typed.
checkModerationKeywordsCaseSensitive(text) ==
  \E keyword \in MODERATION_KEYWORDS : includes(text, keyword)

checkModerationKeywords(text) ==
  \E keyword \in MODERATION_KEYWORDS : includes(toLowerCase(text), keyword)

\* The checks of validateAndModerateInput that come before the moderation
\* call: the error message, or "" when the request passes.
validateInput(invention) ==
  IF Falsy(invention) \/ Len(trim(invention)) = 0 THEN "Invention name is required"
  ELSE IF Len(invention) > MaxInventionLen THEN "Invention name too long (max 100 characters)"
  ELSE IF checkModerationKeywords(invention) THEN "Invalid invention topic"
  ELSE ""

\* A moderateContent that lets the failure of the API count as a flag.
moderateContentFailClosed(outcome) == [flagged |-> outcome # "clean"]

\* moderateContent: results[0] of the API's response, and { flagged: false }
\* when the call throws.
moderateContent(outcome) ==
  IF outcome = "failed" THEN [flagged |-> FALSE] ELSE [flagged |-> outcome = "flagged"]

defaultEra == <<"1", "8", "0", "0", "s">>

maxRequests(route) ==
  CASE route = "deconstruct" -> 10
    [] route = "simulate" -> 5
    [] route = "generate-image" -> 3

\* A limiter that never drops the requests that left the window.
validRequestsNeverExpire(rl, ip, t) == rl[ip]

\* simpleRateLimit: the requests of the key that are still inside the window.
validRequests(rl, ip, t) == SelectSeq(rl[ip], LAMBDA time : t - time < windowMs)

\* A limiter that compares the count with <= and so lets one more through.
limiterAdmitsOneMore(rl, ip, route, t) == Len(validRequests(rl, ip, t)) <= maxRequests(route)

limiterAdmits(rl, ip, route, t) == Len(validRequests(rl, ip, t)) < maxRequests(route)

\* The Map after the middleware ran: a rejected request leaves it as it was.
limiterAfter(rl, ip, route, t) ==
  IF limiterAdmits(rl, ip, route, t)
  THEN [rl EXCEPT ![ip] = Append(validRequests(rl, ip, t), t)]
  ELSE rl

rateLimitExceeded == "Rate limit exceeded. Please try again later."

Finish(r, status, error, cached, value) ==
  [r EXCEPT !.pc = "done", !.resp = Answer(status, error, cached, value)]

Called(r, api, pc) == [r EXCEPT !.calls = Append(@, api), !.pc = pc]

\* await fs.unlink(req.file.path).catch(console.error): the call is made and
\* the handler waits for it to settle; r carries the answer that follows.
Unlinking(r) == [r EXCEPT !.pc = "unlink", !.unlinked = TRUE]

Looked(r, c, ns, key, t) ==
  [r EXCEPT !.reads = @ \cup {ns},
            !.look = [ns |-> ns, k |-> key, present |-> cacheHas(c, ns, key, t),
                      fresh |-> \E e \in c[ns] : e.k = key /\ t < e.t,
                      by |-> IF cacheHas(c, ns, key, t)
                             THEN (CHOOSE e \in c[ns] : e.k = key).by ELSE "none",
                      v |-> cacheGet(c, ns, key, t)]]

Wrote(r, ns, key, val) ==
  [r EXCEPT !.writes = Append(@, [ns |-> ns, k |-> key, v |-> val])]

\* Math.max(0, Math.min(1, creativity)), in tenths; 0.7 when the body has none.
clampCreativity(creativity) ==
  LET c == IF creativity = -1 THEN 7 ELSE creativity
  IN  IF c > 10 THEN 10 ELSE IF c < 0 THEN 0 ELSE c

\* JSON.parse(response) of a chat completion's content: a null content is
\* converted to the text "null".
JSONparseContent(response) ==
  IF response = NullContent THEN ParseOk(JNull, 0) ELSE JSONparse(response)

(***************************************************************************)
(* Express server: the route handlers up to their first await.  Each gives *)
(* the request and the caches as the handler leaves them.                  *)
(***************************************************************************)
deconstructHandler(r, c, t) ==
  LET key == deconstructionKey(r.sInvention)
      cached == getCachedDeconstruction(c, r.sInvention, t)
      r1 == Looked(r, c, "deconstruction", key, t)
      c1 == cacheAfterGet(c, "deconstruction", key, t)
  IN  IF Truthy(cached)
      THEN [req |-> Finish(r1, 200, "", TRUE, cached), caches |-> c1]
      ELSE [req |-> Called(r1, "gpt", "gpt"), caches |-> c1]

simulateHandler(r, c, t) ==
  LET vc == clampCreativity(r.body.creativity)
      key == simulationKey(r.sInvention, r.sEra, vc)
      cached == getCachedSimulation(c, r.sInvention, r.sEra, vc, t)
      r1 == [Looked(r, c, "simulation", key, t) EXCEPT !.validatedCreativity = vc]
      c1 == cacheAfterGet(c, "simulation", key, t)
      dkey == deconstructionKey(r.sInvention)
      cachedDecomposition == getCachedDeconstruction(c1, r.sInvention, t)
      r2 == [r1 EXCEPT !.reads = @ \cup {"deconstruction"}]
      c2 == cacheAfterGet(c1, "deconstruction", dkey, t)
  IN  IF Truthy(cached)
      THEN [req |-> Finish(r1, 200, "", TRUE, cached), caches |-> c1]
      ELSE IF r.body.decomposition
      THEN [req |-> Called(r1, "gpt", "gptSim"), caches |-> c1]
      ELSE IF Truthy(cachedDecomposition)
      THEN [req |-> Called(r2, "gpt", "gptSim"), caches |-> c2]
      ELSE [req |-> Called(r2, "gpt", "gptDecomp"), caches |-> c2]

imageHandler(r, c, t) ==
  LET cacheKey == imageCacheKey(r.body)
      cached == getCachedImage(c, cacheKey, t)
      r1 == Looked(r, c, "image", imageKey(cacheKey), t)
      c1 == cacheAfterGet(c, "image", imageKey(cacheKey), t)
  IN  IF Falsy(r.body.prompt) \/ Len(trim(r.body.prompt)) = 0
      THEN [req |-> Finish(r, 400, "Image prompt is required", FALSE, NoValue), caches |-> c]
      ELSE IF Truthy(cached)
      THEN [req |-> Finish(r1, 200, "", TRUE, cached), caches |-> c1]
      ELSE [req |-> Called(r1, "dall-e", "image"), caches |-> c1]

\* crypto.createHash('md5').update(fileBuffer).digest('hex'): the few file
\* contents of the model have different digests.
md5hex(fileBuffer) == <<"md5:">> \o fileBuffer

transcribeHandler(r, c, t) ==
  LET fileHash == md5hex(r.body.file)
      cached == getCachedTranscription(c, fileHash, t)
      r1 == Looked(r, c, "audio", audioKey(fileHash), t)
      c1 == cacheAfterGet(c, "audio", audioKey(fileHash), t)
  IN  IF Truthy(cached)
      THEN [req |-> Unlinking(Finish(r1, 200, "", TRUE, cached)), caches |-> c1]
      ELSE [req |-> Called(r1, "whisper", "whisper"), caches |-> c1]

(***************************************************************************)
(* Express server: the requests tried and the answers of the OpenAI API.   *)
(***************************************************************************)
Routes == {"deconstruct", "simulate", "generate-image", "narrative", "transcribe"}

ExpressInventions ==
  {<<" ">>, <<"a">>, <<" ", "A">>, Rep("a", MaxInventionLen + 1), <<"B", "o", "m", "b">>}

ExpressBodies(route) ==
  CASE route = "deconstruct" ->
         {[NoBody EXCEPT !.invention = i] : i \in ExpressInventions}
    [] route = "simulate" ->
         {[NoBody EXCEPT !.invention = i, !.creativity = c, !.decomposition = d] :
            i \in ExpressInventions, c \in {-1, 15}, d \in BOOLEAN}
    [] route = "generate-image" ->
         {[NoBody EXCEPT !.prompt = p, !.pathway = e] : p \in {<<" ">>, <<"a">>}, e \in BOOLEAN}
    [] route = "narrative" ->
         {[NoBody EXCEPT !.pathway = e] : e \in BOOLEAN}
    [] route = "transcribe" ->
         {[NoBody EXCEPT !.file = f] : f \in {Undefined, <<"f", "1">>}}

Throw == <<"throw">>

GPTOutputs == {<<"{", "D", "}">>, <<"{", "P", "}">>, <<"t">>, NullContent}

imagesData == JVal("arr", {}, <<JVal("obj", {"url"}, <<>>)>>)

\* transcription.text: some words, or the empty text of a silent recording
Transcriptions == {JVal("text", {"hello"}, <<>>), JVal("falsy", {"empty text"}, <<>>)}

narrativeText(out) == IF out = NullContent THEN JNull ELSE JVal("text", {"narrative"}, <<>>)

InitExpress ==
  /\ deployment = "express"
  /\ env = {}
  /\ EdgeIdle
  /\ UiIdle
  /\ CacheIdle

ExpressFrame == UNCHANGED <<deployment, evars, uvars, got, lastSet, now, ticks, passed>>

\* No answer is waiting to be sent.
NoneDone == \A id \in 1..MaxStarted : reqs[id].pc # "done"

(***************************************************************************)
(* Express server: the steps of a request, from one await to the next.     *)
(***************************************************************************)
\* A request arrives and runs to its first await or to its answer.
ExpressStart(route, ip, body) ==
  LET id == started + 1
      r0 == NewReq(route, ip, body)
      message == validateInput(body.invention)
      image == imageHandler(r0, caches, now)
  IN  /\ deployment = "express"
      /\ NoneDone
      /\ started < MaxStarted
      /\ started' = id
      /\ CASE route \in {"deconstruct", "simulate"} ->
                /\ reqs' = [reqs EXCEPT ![id] =
                              IF message # "" THEN Finish(r0, 400, message, FALSE, NoValue)
                              ELSE Called(r0, "moderation", "moderation")]
                /\ UNCHANGED <<caches, rateLimits>>
           [] route = "generate-image" ->
                /\ rateLimits' = limiterAfter(rateLimits, ip, route, now)
                /\ IF limiterAdmits(rateLimits, ip, route, now)
                   THEN reqs' = [reqs EXCEPT ![id] = image.req] /\ caches' = image.caches
                   ELSE /\ reqs' = [reqs EXCEPT ![id] =
                                      Finish(r0, 429, rateLimitExceeded, FALSE, NoValue)]
                        /\ UNCHANGED caches
           [] route = "narrative" ->
                /\ reqs' = [reqs EXCEPT ![id] =
                              IF ~body.pathway
                              THEN Finish(r0, 400, "Pathway data and era are required",
                                          FALSE, NoValue)
                              ELSE Called(r0, "gpt", "gptNarrative")]
                /\ UNCHANGED <<caches, rateLimits>>
           [] route = "transcribe" ->
                /\ reqs' = [reqs EXCEPT ![id] =
                              IF body.file = Undefined
                              THEN Finish(r0, 400, "Audio file is required", FALSE, NoValue)
                              ELSE [r0 EXCEPT !.pc = "readFile"]]
                /\ UNCHANGED <<caches, rateLimits>>
      /\ ExpressFrame

\* moderateContent settles: validateAndModerateInput finishes, then the
\* limiter and the handler run up to the handler's first await.
ExpressModerationReturns(id, outcome) ==
  LET r == [reqs[id] EXCEPT !.moderation = outcome]
      moderation == moderateContent(outcome)
      r1 == [r EXCEPT !.sInvention = trim(r.body.invention),
                      !.sEra = IF Falsy(r.body.era) THEN defaultEra ELSE trim(r.body.era)]
      h == IF r.route = "deconstruct" THEN deconstructHandler(r1, caches, now)
           ELSE simulateHandler(r1, caches, now)
  IN  /\ deployment = "express"
      /\ NoneDone
      /\ r.pc = "moderation"
      /\ IF moderation.flagged
         THEN /\ reqs' = [reqs EXCEPT ![id] =
                            Finish(r, 400, "Content flagged by moderation system",
                                   FALSE, NoValue)]
              /\ UNCHANGED <<caches, rateLimits>>
         ELSE /\ rateLimits' = limiterAfter(rateLimits, r.ip, r.route, now)
              /\ IF limiterAdmits(rateLimits, r.ip, r.route, now)
                 THEN reqs' = [reqs EXCEPT ![id] = h.req] /\ caches' = h.caches
                 ELSE /\ reqs' = [reqs EXCEPT ![id] =
                                    Finish(r1, 429, rateLimitExceeded, FALSE, NoValue)]
                      /\ UNCHANGED caches
      /\ UNCHANGED started
      /\ ExpressFrame

\* callGPT settles with a content or throws.
ExpressGPTReturns(id, out) ==
  LET r == IF out = Throw THEN reqs[id] ELSE [reqs[id] EXCEPT !.response = out]
      parsed == JSONparseContent(out)
      dkey == deconstructionKey(r.sInvention)
      skey == simulationKey(r.sInvention, r.sEra, r.validatedCreativity)
  IN  /\ deployment = "express"
      /\ NoneDone
      /\ r.pc \in {"gpt", "gptDecomp", "gptSim", "gptNarrative"}
      /\ CASE r.pc = "gpt" ->
                IF out = Throw
                THEN /\ reqs' = [reqs EXCEPT ![id] =
                                   Finish(r, 500, "Failed to deconstruct invention", FALSE, NoValue)]
                     /\ UNCHANGED caches
                ELSE IF ~parsed.ok
                THEN /\ reqs' = [reqs EXCEPT ![id] =
                                   Finish(r, 500, "Failed to parse AI response", FALSE, NoValue)]
                     /\ UNCHANGED caches
                ELSE /\ caches' = setCachedDeconstruction(caches, r.sInvention, parsed.val,
                                                          r.route, now)
                     /\ reqs' = [reqs EXCEPT ![id] =
                                   Finish(Wrote(r, "deconstruction", dkey, parsed.val),
                                          200, "", FALSE, parsed.val)]
           [] r.pc = "gptDecomp" ->
                IF out = Throw
                THEN /\ reqs' = [reqs EXCEPT ![id] =
                                   Finish(r, 500, "Failed to generate simulations", FALSE, NoValue)]
                     /\ UNCHANGED caches
                ELSE IF ~parsed.ok
                THEN /\ reqs' = [reqs EXCEPT ![id] =
                                   Finish(r, 500, "Failed to analyze invention", FALSE, NoValue)]
                     /\ UNCHANGED caches
                ELSE /\ caches' = setCachedDeconstruction(caches, r.sInvention, parsed.val,
                                                          r.route, now)
                     /\ reqs' = [reqs EXCEPT ![id] =
                                   Called(Wrote(r, "deconstruction", dkey, parsed.val),
                                          "gpt", "gptSim")]
           [] r.pc = "gptSim" ->
                IF out = Throw
                THEN /\ reqs' = [reqs EXCEPT ![id] =
                                   Finish(r, 500, "Failed to generate simulations", FALSE, NoValue)]
                     /\ UNCHANGED caches
                ELSE IF ~parsed.ok
                THEN /\ reqs' = [reqs EXCEPT ![id] =
                                   Finish(r, 500, "Failed to parse simulation results",
                                          FALSE, NoValue)]
                     /\ UNCHANGED caches
                ELSE /\ caches' = setCachedSimulation(caches, r.sInvention, r.sEra,
                                                      r.validatedCreativity, parsed.val,
                                                      r.route, now)
                     /\ reqs' = [reqs EXCEPT ![id] =
                                   Finish(Wrote(r, "simulation", skey, parsed.val),
                                          200, "", FALSE, parsed.val)]
           [] r.pc = "gptNarrative" ->
                /\ reqs' = [reqs EXCEPT ![id] =
                              IF out = Throw
                              THEN Finish(r, 500, "Failed to generate narrative", FALSE, NoValue)
                              ELSE Finish(r, 200, "", FALSE, narrativeText(out))]
                /\ UNCHANGED caches
      /\ UNCHANGED <<started, rateLimits>>
      /\ ExpressFrame

\* A handler that stores whatever the image call gave before it looks at
\* the outcome.
ExpressImageReturnsStoresFirst(id, ok) ==
  LET r == reqs[id]
      cacheKey == imageCacheKey(r.body)
      data == IF ok THEN imagesData ELSE JNull
  IN  /\ deployment = "express"
      /\ NoneDone
      /\ r.pc = "image"
      /\ caches' = setCachedImage(caches, cacheKey, data, r.route, now)
      /\ reqs' = [reqs EXCEPT ![id] =
                    IF ok
                    THEN Finish(Wrote(r, "image", imageKey(cacheKey), data),
                                200, "", FALSE, imagesData)
                    ELSE Finish(Wrote(r, "image", imageKey(cacheKey), data),
                                500, "Failed to generate image", FALSE, NoValue)]
      /\ UNCHANGED <<started, rateLimits>>
      /\ ExpressFrame

\* generateImage settles with response.data or throws.
ExpressImageReturns(id, ok) ==
  LET r == reqs[id]
      cacheKey == imageCacheKey(r.body)
  IN  /\ deployment = "express"
      /\ NoneDone
      /\ r.pc = "image"
      /\ IF ok
         THEN /\ caches' = setCachedImage(caches, cacheKey, imagesData, r.route, now)
              /\ reqs' = [reqs EXCEPT ![id] =
                            Finish(Wrote(r, "image", imageKey(cacheKey), imagesData),
                                   200, "", FALSE, imagesData)]
         ELSE /\ reqs' = [reqs EXCEPT ![id] =
                            Finish(r, 500, "Failed to generate image", FALSE, NoValue)]
              /\ UNCHANGED caches
      /\ UNCHANGED <<started, rateLimits>>
      /\ ExpressFrame

\* A handler whose catch answers without cleaning up.
ExpressReadReturnsNoCleanup(id, ok) ==
  LET r == reqs[id]
      h == transcribeHandler(r, caches, now)
  IN  /\ deployment = "express"
      /\ NoneDone
      /\ r.pc = "readFile"
      /\ IF ok
         THEN reqs' = [reqs EXCEPT ![id] = h.req] /\ caches' = h.caches
         ELSE /\ reqs' = [reqs EXCEPT ![id] =
                            Finish(r, 500, "Failed to transcribe audio", FALSE, NoValue)]
              /\ UNCHANGED caches
      /\ UNCHANGED <<started, rateLimits>>
      /\ ExpressFrame

\* fs.readFile settles: the hash, the cache lookup, and on a miss the call
\* of transcribeAudio.
ExpressReadReturns(id, ok) ==
  LET r == reqs[id]
      h == transcribeHandler(r, caches, now)
  IN  /\ deployment = "express"
      /\ NoneDone
      /\ r.pc = "readFile"
      /\ IF ok
         THEN reqs' = [reqs EXCEPT ![id] = h.req] /\ caches' = h.caches
         ELSE /\ reqs' = [reqs EXCEPT ![id] =
                            Unlinking(Finish(r, 500, "Failed to transcribe audio", FALSE, NoValue))]
              /\ UNCHANGED caches
      /\ UNCHANGED <<started, rateLimits>>
      /\ ExpressFrame

\* transcribeAudio settles with the text (ok) or throws.
ExpressWhisperReturns(id, ok, text) ==
  LET r == reqs[id]
      key == audioKey(md5hex(r.body.file))
  IN  /\ deployment = "express"
      /\ NoneDone
      /\ r.pc = "whisper"
      /\ IF ok
         THEN /\ caches' = setCachedTranscription(caches, md5hex(r.body.file), text,
                                                  r.route, now)
              /\ reqs' = [reqs EXCEPT ![id] =
                            Unlinking(Finish(Wrote(r, "audio", key, text), 200, "", FALSE, text))]
         ELSE /\ reqs' = [reqs EXCEPT ![id] =
                            Unlinking(Finish(r, 500, "Failed to transcribe audio", FALSE, NoValue))]
              /\ UNCHANGED caches
      /\ UNCHANGED <<started, rateLimits>>
      /\ ExpressFrame

\* fs.unlink settles, fulfilled or rejected and logged: the answer follows.
ExpressUnlinkSettles(id) ==
  /\ deployment = "express"
  /\ NoneDone
  /\ reqs[id].pc = "unlink"
  /\ reqs' = [reqs EXCEPT ![id].pc = "done"]
  /\ UNCHANGED <<started, caches, rateLimits>>
  /\ ExpressFrame

\* res.json(..) sends the answer, and the request is over.
ExpressRespond(id) ==
  /\ deployment = "express"
  /\ reqs[id].pc = "done"
  /\ reqs' = [reqs EXCEPT ![id] = FreeSlot]
  /\ UNCHANGED <<started, caches, rateLimits>>
  /\ ExpressFrame

ExpressTick ==
  /\ Tick
  /\ NoneDone
  /\ UNCHANGED <<deployment, evars, uvars, started, caches, got, lastSet, rateLimits, reqs, passed>>

NextExpress ==
  \/ \E route \in Routes, ip \in ClientIPs :
       \E body \in ExpressBodies(route) : ExpressStart(route, ip, body)
  \/ \E id \in 1..MaxStarted, outcome \in {"clean", "flagged", "failed"} :
       ExpressModerationReturns(id, outcome)
  \/ \E id \in 1..MaxStarted, out \in GPTOutputs \cup {Throw} : ExpressGPTReturns(id, out)
  \/ \E id \in 1..MaxStarted, ok \in BOOLEAN : ExpressImageReturns(id, ok)
  \/ \E id \in 1..MaxStarted, ok \in BOOLEAN : ExpressReadReturns(id, ok)
  \/ \E id \in 1..MaxStarted, ok \in BOOLEAN, text \in Transcriptions :
       ExpressWhisperReturns(id, ok, text)
  \/ \E id \in 1..MaxStarted : ExpressUnlinkSettles(id)
  \/ \E id \in 1..MaxStarted : ExpressRespond(id)
  \/ ExpressTick

SpecExpress == InitExpress /\ [][NextExpress]_vars

(***************************************************************************)
(* The rate limiters on their own: many requests to the limited routes,    *)
(* each taken through the route's middleware up to the handler's entry.    *)
(***************************************************************************)
\* How many requests the limiters may pass on in a behaviour.
MaxLimiterPassed == 10

RECURSIVE SumLen(_, _)
SumLen(f, S) ==
  IF S = {} THEN 0 ELSE LET x == CHOOSE y \in S : TRUE IN Len(f[x]) + SumLen(f, S \ {x})

TotalPassed == SumLen(passed, DOMAIN passed)

LimiterIPs == {"ip1", "ip2"}

\* The clients of a run: two routes used from ip1, or one route used from
\* both ips.
LimiterClients ==
  {S \in SUBSET (LimitedRoutes \X LimiterIPs) :
     /\ Cardinality(S) = 2
     /\ \E c \in S : c[2] = "ip1"
     /\ \A c, d \in S : c # d => (c[1] = d[1]) # (c[2] = d[2])}

LimiterBodies(route) ==
  IF route = "generate-image" THEN {[NoBody EXCEPT !.prompt = <<"a">>]}
  ELSE {[NoBody EXCEPT !.invention = i] : i \in {<<" ">>, <<"a">>}}

\* How the moderation call of the request may end, when there is one.
LimiterOutcomes(route, body) ==
  IF route \in {"deconstruct", "simulate"} /\ validateInput(body.invention) = ""
  THEN {"clean", "flagged"} ELSE {"none"}

InitLimiter ==
  /\ deployment = "limiter"
  /\ env = {}
  /\ EdgeIdle
  /\ UiIdle
  /\ now = 0
  /\ ticks = 0
  /\ started = 0
  /\ caches = [ns \in Namespaces |-> {}]
  /\ got = NoLookup
  /\ lastSet = {}
  /\ rateLimits = [ip \in LimiterIPs |-> <<>>]
  /\ reqs = [id \in 1..MaxStarted |-> FreeSlot]
  /\ \E clients \in LimiterClients : passed = [c \in clients |-> <<>>]

\* router.post(route, [validateAndModerateInput,] <route>Limiter, handler):
\* the request goes through the middleware in that order; reqs[1] is the
\* request as the middleware left it, at "handler" when next() reached the
\* route handler.
LimiterRequest(route, ip, body, outcome) ==
  LET moderated == route \in {"deconstruct", "simulate"}
      message == validateInput(body.invention)
      r0 == [NewReq(route, ip, body) EXCEPT !.moderation = outcome]
      \* after await moderateContent(invention), when validation let it through
      r1 == IF moderated THEN [r0 EXCEPT !.calls = <<"moderation">>] ELSE r0
  IN  /\ deployment = "limiter"
      /\ <<route, ip>> \in DOMAIN passed
      /\ TotalPassed < MaxLimiterPassed
      /\ IF moderated /\ message # ""
         THEN /\ reqs' = [reqs EXCEPT ![1] = Finish(r0, 400, message, FALSE, NoValue)]
              /\ UNCHANGED <<rateLimits, passed>>
         ELSE IF moderated /\ moderateContent(outcome).flagged
         THEN /\ reqs' = [reqs EXCEPT ![1] =
                            Finish(r1, 400, "Content flagged by moderation system",
                                   FALSE, NoValue)]
              /\ UNCHANGED <<rateLimits, passed>>
         ELSE /\ rateLimits' = limiterAfter(rateLimits, ip, route, now)
              /\ IF limiterAdmits(rateLimits, ip, route, now)
                 THEN /\ reqs' = [reqs EXCEPT ![1] = [r1 EXCEPT !.pc = "handler"]]
                      /\ passed' = [passed EXCEPT ![<<route, ip>>] = Append(@, now)]
                 ELSE /\ reqs' = [reqs EXCEPT ![1] =
                                    Finish(r1, 429, rateLimitExceeded, FALSE, NoValue)]
                      /\ UNCHANGED passed
      /\ UNCHANGED <<deployment, evars, uvars, now, ticks, started, caches, got, lastSet>>

LimiterTick ==
  /\ Tick
  /\ UNCHANGED <<deployment, evars, uvars, started, caches, got, lastSet, rateLimits, reqs, passed>>

NextLimiter ==
  \/ \E route \in LimitedRoutes, ip \in LimiterIPs :
       \E body \in LimiterBodies(route) :
         \E outcome \in LimiterOutcomes(route, body) : LimiterRequest(route, ip, body, outcome)
  \/ LimiterTick

SpecLimiter == InitLimiter /\ [][NextLimiter]_vars

(***************************************************************************)
(* Both back ends: the edge functions and the Express server.              *)
(***************************************************************************)
Init == InitEdge \/ InitExpress

Next == NextEdge \/ NextExpress

Spec == Init /\ [][Next]_vars


(***************************************************************************)
(* Properties.                                                             *)
(***************************************************************************)

\* C1: in every fallback loop the providers are called in list order, each
\* at most once; provider N is called only after providers 1..N-1 were called
\* and failed; on the first success the loop returns that provider's result,
\* the response is built from it and no later provider is called.
FallbackOrder ==
  (deployment = "edge" /\ efn \in EdgeFunctions) =>
    LET ps == providers(efn)
        n == Len(invoked)
    IN  /\ n <= Len(ps)
        /\ \A i \in 1..n : invoked[i] = ps[i]
        /\ Len(failures) <= n
        /\ Len(failures) >= n - 1
        /\ \A i \in 1..Len(failures) : failures[i].provider = ps[i]
        /\ returned # NoReturn =>
             /\ n >= 1
             /\ returned.provider = ps[n]
             /\ Len(failures) = n - 1
             /\ epc = "done"
             /\ eresp = edgeComplete(efn, returned.provider, returned.out).resp

\* Providers [A, B, C] where A and B fail and C succeeds.
FallbackOrderWitness ==
  /\ deployment = "edge"
  /\ efn = "deconstruct"
  /\ invoked = <<"Groq", "Together", "HuggingFace">>
  /\ Len(failures) = 2
  /\ returned.provider = "HuggingFace"
  /\ eresp.status = 200

\* C2: when every provider of the list has failed, the loop throws the error
\* of the last provider of the list (the handler's 500 carries it), not the
\* error of an earlier provider.
ExhaustionThrowsLastError ==
  (deployment = "edge" /\ efn \in EdgeFunctions
     /\ Len(failures) = Len(providers(efn))) =>
    LET n == Len(failures)
    IN  /\ epc = "done"
        /\ returned = NoReturn
        /\ eresp.status = 500
        /\ eresp.details = failures[n]
        /\ eresp.details.provider = providers(efn)[n]
        /\ \A i \in 1..(n - 1) : eresp.details # failures[i]

ExhaustionWitness ==
  /\ deployment = "edge"
  /\ efn = "deconstruct"
  /\ Len(failures) = 3
  /\ failures[1].kind = "upstream"
  /\ failures[3].kind = "config"
  /\ eresp.status = 500

\* What the claims call a request's primary subject string.
EdgeSubject == IF efn = "generate-image" THEN ereq.prompt ELSE ereq.invention

EdgeBodyParsed == deployment = "edge" /\ ereq.method = "POST" /\ ~ereq.malformed

\* C3: a request whose primary subject string (invention for deconstruct and
\* simulate, prompt for generate-image) is empty or whitespace-only is
\* answered 400 and no provider is invoked for it.
BlankSubjectRejected ==
  (/\ EdgeBodyParsed
   /\ efn \in {"deconstruct", "simulate", "generate-image"}
   /\ EdgeSubject # Undefined
   /\ Len(trim(EdgeSubject)) = 0)
    => /\ invoked = <<>>
       /\ epc = "done" => eresp.status = 400

\* C4: a deconstruct or simulate request whose invention is longer than 100
\* characters is answered 400 before any provider is invoked.
LongInventionRejected ==
  (/\ EdgeBodyParsed
   /\ efn \in {"deconstruct", "simulate"}
   /\ ereq.invention # Undefined
   /\ Len(ereq.invention) > 100)
    => /\ invoked = <<>>
       /\ epc = "done" => eresp.status = 400

\* A raw model output from which neither JSON.parse nor the brace scan gets
\* a JSON value.
Unparseable(out) ==
  /\ out \notin {Undefined, NullContent}
  /\ ~JSONparse(out).ok
  /\ ~(jsonMatch(out).found /\ JSONparse(jsonMatch(out).str).ok)

\* C5: whenever the raw model output of a deconstruct or simulate request
\* cannot be parsed as JSON, the handler answers 200 with the synthetic
\* fallback object, in the edge functions and in the Express routes.
ParseFailureAnswered200 ==
  /\ (/\ deployment = "edge"
      /\ efn \in {"deconstruct", "simulate"}
      /\ returned # NoReturn
      /\ Unparseable(returned.out))
       => /\ eresp.status = 200
          /\ eresp.value \in {fallbackDecomposition, fallbackSimulations}
  /\ \A id \in 1..MaxStarted :
       (/\ deployment = "express"
        /\ reqs[id].route \in {"deconstruct", "simulate"}
        /\ reqs[id].pc = "done"
        /\ Unparseable(reqs[id].response))
         => /\ reqs[id].resp.status = 200
            /\ reqs[id].resp.value \in {fallbackDecomposition, fallbackSimulations}

\* C6: every result a deconstruct or simulate handler returns with status
\* 200 conforms to the declared schema of the operation.
ResultConformsToSchema ==
  (deployment = "edge" /\ epc = "done" /\ eresp.status = 200 /\ eresp.kind = "result")
    => /\ efn = "deconstruct" => ConformsDecomposition(eresp.value)
       /\ efn = "simulate" => ConformsSimulation(eresp.value)

GenerationCalls(r) == {i \in 1..Len(r.calls) : r.calls[i] \in {"gpt", "dall-e", "whisper"}}

\* The route's own namespace and the key of the request in it.
OwnNamespace(route) ==
  CASE route = "deconstruct" -> "deconstruction"
    [] route = "simulate" -> "simulation"
    [] route = "generate-image" -> "image"
    [] route = "transcribe" -> "audio"
    [] OTHER -> "none"

\* C7: a request that finds an entry under its key in the cache returns the
\* entry's value at once with cached: true, calls no generation provider and
\* writes nothing to a cache.
CacheHitServedFromCache ==
  \A id \in 1..MaxStarted :
    (deployment = "express" /\ reqs[id].look.present)
      => /\ reqs[id].pc = "done"
         /\ reqs[id].resp.status = 200
         /\ reqs[id].resp.cached
         /\ reqs[id].resp.value = reqs[id].look.v
         /\ GenerationCalls(reqs[id]) = {}
         /\ reqs[id].writes = <<>>

\* C8: a request that missed the cache and is answered 200 has stored its
\* result under its key and says cached: false; a request that arrives
\* while the entry an earlier request of its route stored under its key is
\* younger than the TTL of the namespace is answered cached: true with the
\* value of the entry and calls no generation provider.
MissStoresThenHitServes ==
  \A id \in 1..MaxStarted :
    LET r == reqs[id]
        ns == OwnNamespace(r.route)
    IN  (deployment = "express" /\ ns # "none") =>
          /\ (r.pc = "done" /\ r.resp.status = 200 /\ ~r.look.present)
               => /\ ~r.resp.cached
                  /\ r.writes # <<>>
                  /\ r.writes[Len(r.writes)].ns = ns
                  /\ r.writes[Len(r.writes)].v = r.resp.value
                  /\ \E e \in caches[ns] :
                       /\ e.k = r.writes[Len(r.writes)].k
                       /\ e.v = r.resp.value
                       /\ e.t = now + stdTTL(ns) * 1000
          /\ (r.look.fresh /\ r.look.by = r.route)
               => /\ r.pc = "done"
                  /\ r.resp.cached
                  /\ r.resp.value = r.look.v
                  /\ GenerationCalls(r) = {}

\* The lifetimes the cache is documented with, in seconds.
DocumentedTTL(ns) ==
  CASE ns = "deconstruction" -> 3600
    [] ns = "simulation" -> 1800
    [] ns = "image" -> 7200
    [] ns = "audio" -> 600

\* Every entry expires at the time of its set plus the documented lifetime
\* of its namespace: no call changes the lifetime.
LifetimeIsTheNamespaces ==
  \A ns \in Namespaces : \A e \in caches[ns] :
    \E x \in lastSet :
      x.ns = ns /\ x.k = e.k /\ x.v = e.v /\ e.t = x.at + DocumentedTTL(ns) * 1000

\* C9: a get of a key returns the value of the last set of the key, unchanged,
\* as long as no more than the lifetime of the namespace (3600 s, 1800 s,
\* 7200 s, 600 s) has passed since that set, the instant of expiry included,
\* and returns absent later than that; the lifetime is the same for every call.
CacheRoundTrip ==
  deployment = "cache" =>
    /\ LifetimeIsTheNamespaces
    /\ got.ns \in Namespaces =>
         got.v = IF got.at - got.setAt <= DocumentedTTL(got.ns) * 1000
                 THEN got.setV ELSE NoValue

\* A get later than the lifetime finds nothing, and the entry is gone.
CacheRoundTripWitness ==
  /\ deployment = "cache"
  /\ got.ns = "audio"
  /\ got.at = got.setAt + 600001
  /\ got.setV # JNull
  /\ got.v = NoValue
  /\ caches["audio"] = {}

\* C9 as stated: absent already at the instant the lifetime has elapsed.
CacheRoundTripAbsentAtTTL ==
  deployment = "cache" =>
    /\ LifetimeIsTheNamespaces
    /\ got.ns \in Namespaces =>
         got.v = IF got.at - got.setAt < DocumentedTTL(got.ns) * 1000
                 THEN got.setV ELSE NoValue

\* The namespaces a route may touch: its own, and for simulate the
\* deconstruction cache as well.
AllowedNamespaces(route) ==
  IF route = "simulate" THEN {"simulation", "deconstruction"}
  ELSE {OwnNamespace(route)} \ {"none"}

KeyPrefix(ns) ==
  CASE ns = "deconstruction" -> "deconstruct_"
    [] ns = "simulation" -> "simulate_"
    [] ns = "image" -> "image_"
    [] ns = "audio" -> "audio_"

\* C10: deconstruct touches only the deconstruction cache, generate-image
\* only the image cache, transcribe only the audio cache, and simulate the
\* simulation cache and the deconstruction cache; every entry of a namespace
\* has the key prefix of the namespace and was written by a route that may
\* touch it, and a lookup returns only entries of the namespace it asked.
NamespacesByOperation ==
  deployment = "express" =>
    /\ \A id \in 1..MaxStarted :
         LET r == reqs[id]
         IN  /\ r.reads \subseteq AllowedNamespaces(r.route)
             /\ \A i \in 1..Len(r.writes) : r.writes[i].ns \in AllowedNamespaces(r.route)
             /\ r.look.ns \in {"none", OwnNamespace(r.route)}
             /\ r.look.present => r.look.ns \in AllowedNamespaces(r.look.by)
    /\ \A ns \in Namespaces : \A e \in caches[ns] :
         /\ e.k[1] = KeyPrefix(ns)
         /\ ns \in AllowedNamespaces(e.by)

\* A simulate request without a decomposition looked into the deconstruction
\* cache, generated the decomposition and stored it there.
NamespacesByOperationWitness ==
  /\ deployment = "express"
  /\ \E id \in 1..MaxStarted :
       /\ reqs[id].route = "simulate"
       /\ reqs[id].pc = "done"
       /\ reqs[id].resp.status = 200
       /\ "deconstruction" \in reqs[id].reads
       /\ Len(reqs[id].writes) = 2
       /\ reqs[id].writes[1].ns = "deconstruction"
       /\ \E e \in caches["deconstruction"] : e.by = "simulate"

\* C10 as stated: every route touches its own namespace only.
NamespacesOwnOnly ==
  deployment = "express" =>
    /\ \A id \in 1..MaxStarted :
         LET r == reqs[id]
         IN  /\ r.reads \subseteq {OwnNamespace(r.route)}
             /\ \A i \in 1..Len(r.writes) : r.writes[i].ns = OwnNamespace(r.route)
             /\ r.look.present => r.look.by = r.route
    /\ \A ns \in Namespaces : \A e \in caches[ns] :
         /\ e.k[1] = KeyPrefix(ns)
         /\ OwnNamespace(e.by) = ns

OneProviderInFlight ==
  (deployment = "edge" /\ efn \in EdgeFunctions) =>
    /\ Cardinality(inflight) <= 1
    /\ epc = "await" <=> inflight # {}
    /\ inflight # {} => inflight = {invoked[Len(invoked)]}
    /\ \A i \in 1..(Len(invoked) - 1) :
         /\ i <= Len(failures)
         /\ failures[i].provider = invoked[i]
         /\ invoked[i] \notin inflight

\* The third provider's call is open after the first two have failed.
OneProviderInFlightWitness ==
  /\ deployment = "edge"
  /\ efn = "deconstruct"
  /\ Len(invoked) = 3
  /\ Len(failures) = 2
  /\ epc = "await"
  /\ inflight = {invoked[3]}
  /\ Len(fetches) >= 2

\* C13: when every provider of the list has failed the handler answers 500
\* with the fixed message of the function, and the error it reports does not
\* carry the text of a provider's response; a response built from the
\* coercion fallback has status 200.
AllFailedAnswersGeneric500 ==
  (deployment = "edge" /\ efn \in EdgeFunctions) =>
    /\ Len(failures) = Len(providers(efn)) =>
         /\ epc = "done"
         /\ eresp.status = 500
         /\ eresp.kind = "error"
         /\ eresp.error = edgeFailureMessage(efn)
         /\ eresp.value = NoValue
         /\ ~eresp.details.raw
    /\ usedFallback => eresp.status = 200

\* Both image providers failed, the first with the response text in its
\* message; the 500 reports the second one's.
AllFailedWitness ==
  /\ deployment = "edge"
  /\ efn = "generate-image"
  /\ Len(failures) = 2
  /\ failures[1].raw
  /\ eresp.status = 500
  /\ eresp.details = failures[2]
  /\ ~eresp.details.raw

\* The text contains a disallowed keyword, whatever the case of its letters.
ContainsDisallowedKeyword(text) ==
  /\ text # Undefined
  /\ \E keyword \in MODERATION_KEYWORDS :
       \E i \in 0..(Len(text) - Len(keyword)) :
         \A j \in 1..Len(keyword) : LowerChar(text[i + j]) = keyword[j]

\* The deconstruct or simulate request has a disallowed keyword in its
\* invention, or the moderation service flagged it.
Disallowed(r) ==
  /\ r.route \in {"deconstruct", "simulate"}
  /\ ContainsDisallowedKeyword(r.body.invention) \/ r.moderation = "flagged"

\* C14: a deconstruct or simulate request whose invention contains a
\* disallowed keyword in any case, or that the moderation service flags, is
\* answered 400; no cache was read or written and no generation provider
\* called for it, and the step that rejects it leaves the rate limiter's
\* records and the caches as they were.
DisallowedRejected ==
  /\ [](deployment = "express" =>
          \A id \in 1..MaxStarted :
            LET r == reqs[id]
            IN  Disallowed(r) =>
                  /\ r.pc = "done"
                  /\ r.resp.status = 400
                  /\ r.resp.value = NoValue
                  /\ r.reads = {}
                  /\ r.writes = <<>>
                  /\ GenerationCalls(r) = {}
                  /\ \A i \in 1..Len(r.calls) : r.calls[i] = "moderation")
  /\ [][deployment = "express" =>
          \A id \in 1..MaxStarted :
            (reqs[id].pc # "done" /\ reqs'[id].pc = "done" /\ Disallowed(reqs'[id])) =>
              rateLimits' = rateLimits /\ caches' = caches]_vars

\* A request with a keyword in capitals was rejected while the limiter and a
\* cache held what an earlier request left there.
DisallowedRejectedWitness ==
  /\ deployment = "express"
  /\ \E id \in 1..MaxStarted :
       /\ reqs[id].pc = "done"
       /\ reqs[id].body.invention = <<"B", "o", "m", "b">>
       /\ reqs[id].resp.status = 400
       /\ reqs[id].resp.error = "Invalid invention topic"
  /\ \E ip \in ClientIPs : rateLimits[ip] # <<>>
  /\ caches["deconstruction"] # {}

\* What the limiter and the handler make of the request id, waiting for the
\* moderation call, when the call ends as outcome and does not flag it.
AfterModeration(id, outcome) ==
  LET r == [reqs[id] EXCEPT !.moderation = outcome,
                            !.sInvention = trim(reqs[id].body.invention),
                            !.sEra = IF Falsy(reqs[id].body.era) THEN defaultEra
                                     ELSE trim(reqs[id].body.era)]
      h == IF r.route = "deconstruct" THEN deconstructHandler(r, caches, now)
           ELSE simulateHandler(r, caches, now)
  IN  IF limiterAdmits(rateLimits, r.ip, r.route, now)
      THEN [req |-> h.req, caches |-> h.caches,
            rateLimits |-> limiterAfter(rateLimits, r.ip, r.route, now)]
      ELSE [req |-> Finish(r, 429, rateLimitExceeded, FALSE, NoValue), caches |-> caches,
            rateLimits |-> rateLimits]

\* C15: moderation fails open.  A request that passed the shape, length and
\* keyword checks and whose moderation call failed is never answered 400, and
\* the step that takes the failure leaves the request, the caches and the
\* limiter's records exactly as a not-flagged result would, apart from the
\* record of how the call ended.
ModerationFailsOpen ==
  /\ [](deployment = "express" =>
          \A id \in 1..MaxStarted :
            reqs[id].moderation = "failed" =>
              /\ validateInput(reqs[id].body.invention) = ""
              /\ reqs[id].sInvention = trim(reqs[id].body.invention)
              /\ reqs[id].pc = "done" => reqs[id].resp.status # 400
              /\ reqs[id].look.ns = OwnNamespace(reqs[id].route))
  /\ [][deployment = "express" =>
          \A id \in 1..MaxStarted :
            (reqs[id].pc = "moderation" /\ reqs'[id].moderation = "failed") =>
              /\ [reqs'[id] EXCEPT !.moderation = "clean"] = AfterModeration(id, "clean").req
              /\ caches' = AfterModeration(id, "clean").caches
              /\ rateLimits' = AfterModeration(id, "clean").rateLimits]_vars

\* The moderation call of a simulate request failed; the request went on to
\* the limiter, the cache and the model, and was answered 200.
ModerationFailsOpenWitness ==
  /\ deployment = "express"
  /\ \E id \in 1..MaxStarted :
       /\ reqs[id].route = "simulate"
       /\ reqs[id].moderation = "failed"
       /\ reqs[id].pc = "done"
       /\ reqs[id].resp.status = 200
       /\ ~reqs[id].resp.cached
       /\ Len(reqs[id].writes) = 2
  /\ \E ip \in ClientIPs : rateLimits[ip] # <<>>

\* The documented limits: requests per window of five minutes.
DocumentedLimit(route) ==
  CASE route = "deconstruct" -> 10
    [] route = "simulate" -> 5
    [] route = "generate-image" -> 3

\* No window of 300000 ms holds more passed requests of a route and ip than
\* the route's limit: any two passes less than a window apart have fewer than
\* limit - 1 passes between them.
WindowBound ==
  deployment = "limiter" =>
    \A c \in DOMAIN passed :
      \A i, j \in 1..Len(passed[c]) :
        (i <= j /\ passed[c][j] - passed[c][i] < 300000) => j - i + 1 <= DocumentedLimit(c[1])

\* The passes of the client that lie in the window that ends now.
PassedInWindow(c) == {i \in 1..Len(passed[c]) : now - passed[c][i] < 300000}

\* The step takes a request of a client whose window is full.
FurtherRequest ==
  /\ deployment = "limiter"
  /\ now' = now
  /\ reqs' # reqs
  /\ Cardinality(PassedInWindow(<<reqs'[1].route, reqs'[1].ip>>))
       >= DocumentedLimit(reqs'[1].route)

\* The request is one validateAndModerateInput answers itself.
StoppedBeforeLimiter(r) ==
  /\ r.route \in {"deconstruct", "simulate"}
  /\ validateInput(r.body.invention) # "" \/ r.moderation = "flagged"

EveryEdgeResponseHasCors ==
  (deployment = "edge" /\ epc = "done") =>
    /\ eresp.corsHeaders
    /\ eresp.status \in {200, 400, 500}
    /\ ereq.method = "OPTIONS" =>
         /\ eresp = Resp(200, TRUE, "options", "", NoError, NoValue)
         /\ invoked = <<>>
         /\ fetches = <<>>
         /\ failures = <<>>
    /\ ereq.method # "OPTIONS" => eresp.kind # "options"

\* A preflight request, whose body does not parse, was answered.
PreflightWitness ==
  /\ deployment = "edge"
  /\ efn = "narrative"
  /\ ereq.method = "OPTIONS"
  /\ ereq.malformed
  /\ epc = "done"
  /\ eresp.kind = "options"
  /\ eresp.corsHeaders

\* The fallback structure of the edge function.
FallbackOf(fn) == IF fn = "deconstruct" THEN fallbackDecomposition ELSE fallbackSimulations

\* C18: coercion is idempotent on its own output.  The result an edge
\* function answers with, parsed from the provider's output or the synthetic
\* fallback, serialised to JSON text and coerced again, is the same result.
CoercionIdempotent ==
  (deployment = "edge" /\ efn \in {"deconstruct", "simulate"} /\ epc = "done"
     /\ eresp.kind = "result") =>
    coerce(stringify(eresp.value), FallbackOf(efn)).val = eresp.value

\* The first balanced object or array inside a text: the value that starts at
\* the first opening brace or bracket from which one can be read.
FirstBalanced(s) ==
  LET starts == {i \in 1..Len(s) : s[i] \in {"{", "["} /\ parseValue(s, i).ok}
  IN  IF starts = {} THEN [found |-> FALSE, val |-> NoValue]
      ELSE LET a == CHOOSE i \in starts : \A j \in starts : i <= j
           IN  [found |-> TRUE, val |-> parseValue(s, a).val]

\* C19: coercion tries a strict parse of the whole text first, and only when
\* that fails takes the first balanced object or array inside the text: a
\* text that parses as it is gives its own value, and a text with one valid
\* object among other text, later braces included, gives that object and not
\* the fallback.
StrictParseThenFirstBalanced ==
  (deployment = "edge" /\ efn \in {"deconstruct", "simulate"} /\ epc = "done"
     /\ eresp.kind = "result" /\ returned.out # NullContent) =>
    LET out == returned.out
    IN  /\ JSONparse(out).ok => (eresp.value = JSONparse(out).val /\ ~usedFallback)
        /\ (~JSONparse(out).ok /\ FirstBalanced(out).found) =>
             (eresp.value = FirstBalanced(out).val /\ ~usedFallback)

\* The normalised form of a parameter: without the white space around it,
\* in lower case.
Normalised(text) == toLowerCase(trim(text))

\* The creativity of a simulate body as the key carries it: 0.7 when the
\* body has none, and no less than 0 and no more than 1 (in tenths).
ClampedCreativity(body) ==
  LET c == IF body.creativity = -1 THEN 7 ELSE body.creativity
  IN  IF c < 0 THEN 0 ELSE IF c > 10 THEN 10 ELSE c

\* The key of the normalised parameters of a deconstruct or simulate request.
NormalisedKey(r) ==
  IF r.route = "deconstruct" THEN <<"deconstruct_">> \o Normalised(r.body.invention)
  ELSE <<"simulate_">> \o Normalised(r.body.invention) \o <<"_">>
         \o Normalised(IF Falsy(r.body.era) THEN defaultEra ELSE r.body.era) \o <<"_">>
         \o creativityString(ClampedCreativity(r.body))

\* C20: a deconstruct or simulate request looks its result up under the key
\* of its normalised parameters (invention and era trimmed and in lower
\* case, the clamped creativity), so a request that differs from an earlier
\* one of its route only in case or surrounding white space finds that
\* request's entry, and while the entry lives it is served from it.
NormalisedKeyServesSecondRequest ==
  deployment = "express" =>
    \A id \in 1..MaxStarted :
      LET r == reqs[id]
      IN  (r.route \in {"deconstruct", "simulate"} /\ r.look.ns = OwnNamespace(r.route)) =>
            /\ r.look.k = NormalisedKey(r)
            /\ \A i \in 1..Len(r.writes) :
                 r.writes[i].ns = OwnNamespace(r.route) => r.writes[i].k = NormalisedKey(r)
            /\ (r.look.fresh /\ r.look.by = r.route) =>
                 /\ r.pc = "done"
                 /\ r.resp.status = 200
                 /\ r.resp.cached
                 /\ r.resp.value = r.look.v

\* The parameters behind an accessor's subject, normalised as the namespace
\* documents: trimmed and in lower case for an invention, as they are for an
\* image's prompt, style and size and for an audio hash.
NormalisedSubject(ns, subject) ==
  IF ns \in {"deconstruction", "simulation"} THEN Normalised(subject) ELSE subject

\* C21: the cache key is injective on the normalised parameters, so a get
\* never returns a value that was stored for other parameters.
HitIsForSameParameters ==
  deployment = "cache" =>
    (got.v # NoValue =>
       NormalisedSubject(got.ns, got.subject) = NormalisedSubject(got.ns, got.setSubject))

\* The whole results a generation can end with: the parsed content of a chat
\* completion, the data of an image response, the text of a transcription.
WholeResults(ns) ==
  CASE ns \in {"deconstruction", "simulation"} ->
         {JSONparseContent(out).val : out \in {o \in GPTOutputs : JSONparseContent(o).ok}}
    [] ns = "image" -> {imagesData}
    [] ns = "audio" -> Transcriptions

\* C22: under any interleaving of the requests, a cache holds at most one
\* entry per key and every entry, and every value a lookup returned, is the
\* whole result of a generation; an entry appears or changes only in the step
\* in which a request that finished its generation stores its result, and
\* is then that result.
CacheEntriesWhole ==
  /\ [](deployment = "express" =>
          /\ \A ns \in Namespaces :
               /\ \A e1, e2 \in caches[ns] : e1.k = e2.k => e1 = e2
               /\ \A e \in caches[ns] : e.v \in WholeResults(ns)
          /\ \A id \in 1..MaxStarted :
               reqs[id].look.ns \in Namespaces =>
                 reqs[id].look.v \in WholeResults(reqs[id].look.ns) \cup {NoValue})
  /\ [][deployment = "express" =>
          \A ns \in Namespaces :
            \A e \in caches'[ns] \ caches[ns] :
              \E id \in 1..MaxStarted :
                LET w == reqs'[id].writes
                IN  /\ Len(w) = Len(reqs[id].writes) + 1
                    /\ w[Len(w)] = [ns |-> ns, k |-> e.k, v |-> e.v]
                    /\ "gpt" = reqs[id].calls[Len(reqs[id].calls)]
                         \/ reqs[id].pc \in {"image", "whisper"}]_vars

\* Two deconstruct requests missed the same key and both called the model;
\* the first has finished and the cache holds its result, whole, while the
\* call of the second is still pending.
ConcurrentMissesWitness ==
  /\ deployment = "express"
  /\ reqs[1].route = "deconstruct"
  /\ reqs[2].route = "deconstruct"
  /\ reqs[1].look.k = reqs[2].look.k
  /\ ~reqs[1].look.present
  /\ ~reqs[2].look.present
  /\ reqs[1].pc = "done"
  /\ reqs[2].pc = "gpt"
  /\ reqs[1].resp.status = 200
  /\ caches["deconstruction"] =
       {[k |-> reqs[1].look.k, v |-> reqs[1].resp.value, t |-> now + 3600000,
         by |-> "deconstruct"]}

\* C23: the limiters of the three routes are independent: a request is
\* answered 429 only if its own route has passed its limit of requests
\* of that ip within the last 300000 ms.
RejectedOnlyByOwnQuota ==
  [][(/\ deployment = "limiter"
      /\ now' = now
      /\ reqs' # reqs
      /\ reqs'[1].pc = "done"
      /\ reqs'[1].resp.status = 429)
       => Cardinality(PassedInWindow(<<reqs'[1].route, reqs'[1].ip>>))
            >= DocumentedLimit(reqs'[1].route)]_vars

\* How many admitted requests of the ip, on whatever route, are younger than
\* the window.
YoungAdmitted(ip) ==
  LET RECURSIVE Count(_)
      Count(S) ==
        IF S = {} THEN 0
        ELSE LET c == CHOOSE d \in S : TRUE
             IN  (IF c[2] = ip THEN Cardinality(PassedInWindow(c)) ELSE 0) + Count(S \ {c})
  IN  Count(DOMAIN passed)

\* C24: the limiter never locks a client out for good: a request answered 429
\* leaves the limiter's records as they were, and a request that reaches the
\* limiter while fewer than the route's limit of the client's admitted
\* requests are younger than 300000 ms is admitted, whatever was rejected
\* before.
NoPermanentLockout ==
  [][(deployment = "limiter" /\ now' = now) =>
       /\ (reqs'[1].pc = "done" /\ reqs'[1].resp.status = 429) =>
            (rateLimits' = rateLimits /\ passed' = passed)
       /\ (/\ reqs'[1].route \in LimitedRoutes
           /\ ~StoppedBeforeLimiter(reqs'[1])
           /\ YoungAdmitted(reqs'[1].ip) < DocumentedLimit(reqs'[1].route)) =>
            (/\ reqs'[1].pc = "handler"
             /\ passed' = [passed EXCEPT ![<<reqs'[1].route, reqs'[1].ip>>] = Append(@, now)])]_vars

\* A client that had used up the limit of /generate-image is admitted again
\* once its earlier requests have left the window.
AdmittedAgainWitness ==
  /\ deployment = "limiter"
  /\ reqs[1].pc = "handler"
  /\ reqs[1].route = "generate-image"
  /\ LET c == <<reqs[1].route, reqs[1].ip>>
     IN  /\ Len(passed[c]) > DocumentedLimit(c[1])
         /\ passed[c][Len(passed[c])] = now
         /\ Len(rateLimits[reqs[1].ip]) = 1

\* C25: a request the limiter answers 429 has caused no external API call,
\* neither of the moderation service nor of a generation provider.
RejectedCallsNoApi ==
  deployment = "limiter" =>
    \A id \in 1..MaxStarted :
      (reqs[id].pc = "done" /\ reqs[id].resp.status = 429) => reqs[id].calls = <<>>

\* C26 as stated: a request that ends with an error response (4xx or 5xx)
\* has added or replaced no entry of any cache namespace.
ErrorLeavesCachesUnchanged ==
  deployment = "express" =>
    \A id \in 1..MaxStarted :
      (reqs[id].pc = "done" /\ reqs[id].resp.status >= 400) => reqs[id].writes = <<>>

\* C26: a request that ends with an error response has added or replaced no
\* cache entry, except that a POST /simulate that generated and parsed a
\* decomposition on demand stored it under the invention's key in the
\* deconstruction cache before its simulation call failed or gave an output
\* that could not be parsed; the step that ends a request with an error
\* changes no cache.
ErrorLeavesCachesUnchangedButDecomposition ==
  /\ [](deployment = "express" =>
          \A id \in 1..MaxStarted :
            LET r == reqs[id]
            IN  (r.pc = "done" /\ r.resp.status >= 400) =>
                  \/ r.writes = <<>>
                  \/ /\ r.route = "simulate"
                     /\ Len(r.writes) = 1
                     /\ r.writes[1].ns = "deconstruction"
                     /\ r.writes[1].k = deconstructionKey(r.sInvention)
                     /\ r.writes[1].v \in WholeResults("deconstruction")
                     /\ Cardinality(GenerationCalls(r)) = 2)
  /\ [][deployment = "express" =>
          \A id \in 1..MaxStarted :
            (reqs[id].pc # "done" /\ reqs'[id].pc = "done" /\ reqs'[id].resp.status >= 400)
              => caches' = caches]_vars

\* A POST /simulate ended with 500 after it had stored the decomposition it
\* generated.
SimulateFailedAfterDecompositionWitness ==
  /\ deployment = "express"
  /\ \E id \in 1..MaxStarted :
       /\ reqs[id].route = "simulate"
       /\ reqs[id].pc = "done"
       /\ reqs[id].resp.status = 500
       /\ Len(reqs[id].writes) = 1
       /\ \E e \in caches["deconstruction"] :
            e.k = reqs[id].writes[1].k /\ e.v = reqs[id].writes[1].v /\ e.by = "simulate"

\* C27: in POST /simulate the simulation call is made only once a
\* decomposition is at hand: the one of the request body, else the one the
\* deconstruction cache holds for the invention, without a decomposition
\* call, else one generated by a decomposition call and stored in the
\* deconstruction cache before the simulation call; a generated decomposition
\* that cannot be parsed ends the request with 500 and no simulation call.
SimulationAfterDecomposition ==
  [][deployment = "express" =>
       \A id \in 1..MaxStarted :
         LET r == reqs[id]
             r2 == reqs'[id]
             dkey == deconstructionKey(r2.sInvention)
             held == cacheHas(caches, "deconstruction", dkey, now)
         IN  r2.route = "simulate" =>
               \* the decomposition call is made only when none is supplied or cached
               /\ (r.pc # "gptDecomp" /\ r2.pc = "gptDecomp") =>
                    (~r2.body.decomposition /\ ~held)
               \* the simulation call
               /\ (r.pc # "gptSim" /\ r2.pc = "gptSim") =>
                    \/ r2.body.decomposition /\ Cardinality(GenerationCalls(r2)) = 1
                    \/ /\ r.pc # "gptDecomp"
                       /\ held
                       /\ Cardinality(GenerationCalls(r2)) = 1
                       /\ r2.writes = <<>>
                    \/ /\ r.pc = "gptDecomp"
                       /\ JSONparseContent(r2.response).ok
                       /\ r2.writes = <<[ns |-> "deconstruction", k |-> dkey,
                                         v |-> JSONparseContent(r2.response).val]>>
                       /\ \E e \in caches'["deconstruction"] :
                            e.k = dkey /\ e.v = JSONparseContent(r2.response).val
               \* the decomposition call failed or gave no JSON
               /\ (r.pc = "gptDecomp" /\ r2.pc = "done") =>
                    /\ r2.resp.status = 500
                    /\ Cardinality(GenerationCalls(r2)) = 1
                    /\ r2.writes = <<>>
               /\ (r.pc = "gptDecomp" /\ r2.pc = "gptSim") => JSONparseContent(r2.response).ok
               /\ (r.pc = "gptDecomp" /\ r2.response # r.response
                     /\ ~JSONparseContent(r2.response).ok) => r2.pc = "done"]_vars

\* C28: a POST /transcribe with an uploaded file has called fs.unlink on the
\* file and waited for it before its answer is sent, on the cache hit, after
\* a transcription, and when reading the file or transcribing it failed: the
\* answer follows the settling of the unlink, and no other step ends the
\* request.
UnlinkedBeforeResponse ==
  /\ [](deployment = "express" =>
          \A id \in 1..MaxStarted :
            (reqs[id].route = "transcribe" /\ reqs[id].body.file # Undefined
               /\ reqs[id].pc = "done") => reqs[id].unlinked)
  /\ [][deployment = "express" =>
          \A id \in 1..MaxStarted :
            (reqs'[id].route = "transcribe" /\ reqs'[id].body.file # Undefined
               /\ reqs[id].pc # "done" /\ reqs'[id].pc = "done")
              => (reqs[id].pc = "unlink" /\ reqs[id].unlinked)]_vars

\* Reading the uploaded file failed: the request made no lookup and no call
\* and is answered 500, after the unlink.
UnlinkedOnErrorWitness ==
  /\ deployment = "express"
  /\ \E id \in 1..MaxStarted :
       /\ reqs[id].route = "transcribe"
       /\ reqs[id].pc = "done"
       /\ reqs[id].resp.status = 500
       /\ reqs[id].calls = <<>>
       /\ reqs[id].unlinked

(***************************************************************************)
(* The Index page of the web client: its React state and the runs of       *)
(* handleGenerate, handleGenerateImages and handleBackToInput.  Each       *)
(* setState outside an event handler is a render of its own.               *)
(***************************************************************************)
Null == "null"

\* What the InputForm submits: invention and era trimmed, the sliders' values.
FormData ==
  [invention : {"Airplane", "Computer"}, era : {"1600s", "Medieval"},
   creativity : {5, 7}, depth : {3}]

NoFormData == [invention |-> "", era |-> "", creativity |-> 0, depth |-> 0]

\* supabase.functions.invoke settles with { data, error }.
\* data is null, or an object whose decomposition may be missing
DeconstructResponses ==
  {[error |-> TRUE, data |-> Null, decomposition |-> "undefined"],
   [error |-> FALSE, data |-> Null, decomposition |-> "undefined"],
   [error |-> FALSE, data |-> "object", decomposition |-> "D1"],
   [error |-> FALSE, data |-> "object", decomposition |-> "undefined"]}

SimulateResponses ==
  {[error |-> TRUE, data |-> Null],
   [error |-> FALSE, data |-> Null],
   [error |-> FALSE, data |-> "S1"]}

\* The value of the results state: null, or the object handleGenerate sets.
NoResults ==
  [null |-> TRUE, decomposition |-> "", simulations |-> "", invention |-> "", era |-> "",
   creativity |-> 0, depth |-> 0]

\* useState('input'), useState(null), useState(false), useState(false); no
\* handler is running.
IndexMounted ==
  [currentView |-> "input", results |-> NoResults, isLoading |-> FALSE, isLoadingImages |-> FALSE,
   pc |-> "idle",            \* where the run of handleGenerate stands
   formData |-> NoFormData,  \* its argument
   decomposition |-> "undefined",   \* its local constant
   entry |-> <<"input", NoResults>>,  \* currentView and results when the run began
   outcome |-> "none",       \* how the run that ended last ended
   imagesPc |-> "idle"]      \* where the run of handleGenerateImages stands

InitIndex ==
  /\ deployment = "index"
  /\ env = {}
  /\ EdgeIdle
  /\ CacheIdle
  /\ index = IndexMounted
  /\ camera = NoPage

IndexFrame == UNCHANGED <<deployment, evars, cvars, camera>>

\* The submit button of the InputForm, rendered in the input view and
\* enabled while isLoading is false: handleGenerate up to its first await.
handleGenerate(formData) ==
  /\ deployment = "index"
  /\ index.currentView = "input"
  /\ ~index.isLoading
  /\ index.pc = "idle"
  /\ index' = [index EXCEPT !.isLoading = TRUE, !.pc = "deconstruct", !.formData = formData,
                            !.decomposition = "undefined",
                            !.entry = <<index.currentView, index.results>>]
  /\ IndexFrame

\* invoke('deconstruct') settles: an error, or data that cannot be
\* destructured, goes to the catch block.
IndexDeconstructSettles(response) ==
  /\ deployment = "index"
  /\ index.pc = "deconstruct"
  /\ index' = IF response.error \/ response.data = Null
              THEN [index EXCEPT !.pc = "finally", !.outcome = "failed at deconstruct"]
              ELSE [index EXCEPT !.pc = "simulate",
                                 !.decomposition = response.decomposition]
  /\ IndexFrame

\* A handler that switches to the results view before it sets the results.
IndexSimulateSettlesViewFirst(response) ==
  /\ deployment = "index"
  /\ index.pc = "simulate"
  /\ index' = IF response.error
              THEN [index EXCEPT !.pc = "finally", !.outcome = "failed at simulate"]
              ELSE [index EXCEPT !.pc = "setCurrentView", !.currentView = "results"]
  /\ IndexFrame

\* invoke('simulate') settles: an error goes to the catch block, anything
\* else to setResults.
IndexSimulateSettles(response) ==
  /\ deployment = "index"
  /\ index.pc = "simulate"
  /\ index' = IF response.error
              THEN [index EXCEPT !.pc = "finally", !.outcome = "failed at simulate"]
              ELSE [index EXCEPT !.pc = "setCurrentView",
                                 !.results = [null |-> FALSE,
                                              decomposition |-> index.decomposition,
                                              simulations |-> response.data,
                                              invention |-> index.formData.invention,
                                              era |-> index.formData.era,
                                              creativity |-> index.formData.creativity,
                                              depth |-> index.formData.depth]]
  /\ IndexFrame

\* setCurrentView('results')
IndexSetCurrentView ==
  /\ deployment = "index"
  /\ index.pc = "setCurrentView"
  /\ index' = [index EXCEPT !.currentView = "results", !.pc = "finally", !.outcome = "ok"]
  /\ IndexFrame

\* finally { setIsLoading(false) }: handleGenerate has finished.
IndexFinally ==
  /\ deployment = "index"
  /\ index.pc = "finally"
  /\ index' = [index EXCEPT !.isLoading = FALSE, !.pc = "idle"]
  /\ IndexFrame

\* The ResultsView asks for an image: handleGenerateImages up to its await.
handleGenerateImages ==
  /\ deployment = "index"
  /\ index.currentView = "results"
  /\ index.pc = "idle"
  /\ index.imagesPc = "idle"
  /\ index' = [index EXCEPT !.isLoadingImages = TRUE, !.imagesPc = "image"]
  /\ IndexFrame

\* invoke('generate-image') settles, either way: finally
\* { setIsLoadingImages(false) }.
IndexImageSettles ==
  /\ deployment = "index"
  /\ index.imagesPc = "image"
  /\ index.pc \in {"idle", "deconstruct", "simulate"}
  /\ index' = [index EXCEPT !.isLoadingImages = FALSE, !.imagesPc = "idle"]
  /\ IndexFrame

\* The back button of the ResultsView: one event handler, one render.
handleBackToInput ==
  /\ deployment = "index"
  /\ index.currentView = "results"
  /\ index.pc = "idle"
  /\ index' = [index EXCEPT !.currentView = "input", !.results = NoResults]
  /\ IndexFrame

NextIndex ==
  \/ \E formData \in FormData : handleGenerate(formData)
  \/ \E response \in DeconstructResponses : IndexDeconstructSettles(response)
  \/ \E response \in SimulateResponses : IndexSimulateSettles(response)
  \/ IndexSetCurrentView
  \/ IndexFinally
  \/ handleGenerateImages
  \/ IndexImageSettles
  \/ handleBackToInput

SpecIndex == InitIndex /\ [][NextIndex]_vars

\* C29: whatever runs of handleGenerate, successful or failing at either
\* step, and calls of handleBackToInput the page has seen, currentView is
\* 'results' only while results is not null; a run of handleGenerate that
\* fails has changed neither currentView nor results when it ends; and
\* isLoading is false whenever no run of handleGenerate is under way.
ResultsViewHasResults ==
  deployment = "index" =>
    /\ index.currentView = "results" => ~index.results.null
    /\ (index.pc = "finally"
          /\ index.outcome \in {"failed at deconstruct", "failed at simulate"})
         => <<index.currentView, index.results>> = index.entry
    /\ index.pc = "idle" => ~index.isLoading

\* A run of handleGenerate failed at its simulate step, after the
\* deconstruct step had given a decomposition, and has finished: the page
\* is in the input view without results and no longer loading.
FailedRunWitness ==
  /\ deployment = "index"
  /\ index.pc = "idle"
  /\ index.outcome = "failed at simulate"
  /\ index.decomposition = "D1"
  /\ index.currentView = "input"
  /\ index.results.null
  /\ ~index.isLoading

(***************************************************************************)
(* The CameraCapture dialog: the isOpen prop, the stream state, the effect *)
(* on [isOpen] with the stream its closure captured, the calls of          *)
(* getUserMedia that have not settled, and the streams whose tracks are    *)
(* live.  A stream is a positive number, 0 is null.                        *)
(***************************************************************************)
\* How many times getUserMedia may be called in a behaviour.
MaxCameraCalls == 3

\* The component as InputForm mounts it: isOpen false, useState(null); the
\* effect has run once and found nothing to do.
CameraMounted ==
  [pc |-> "mounted",
   isOpen |-> FALSE,
   stream |-> 0,           \* the stream state
   isVideoReady |-> FALSE,
   capturedImage |-> FALSE,  \* the capturedImage state is not null
   srcObject |-> 0,        \* videoRef.current.srcObject; the video exists while open
   effectStream |-> 0,     \* the stream in the closure of the effect that ran last
   pending |-> 0,          \* calls of getUserMedia that have not settled
   calls |-> 0,            \* calls of getUserMedia made
   live |-> {}]            \* the streams obtained whose tracks have not been stopped

InitCamera ==
  /\ deployment = "camera"
  /\ env = {}
  /\ EdgeIdle
  /\ CacheIdle
  /\ index = NoPage
  /\ camera = CameraMounted

CameraFrame == UNCHANGED <<deployment, evars, cvars, index>>

\* stopCamera, with the stream of the render whose closure it is.
stopCamera(c, stream) ==
  [c EXCEPT !.live = IF stream # 0 THEN @ \ {stream} ELSE @,
            !.stream = IF stream # 0 THEN 0 ELSE @,
            !.srcObject = 0,
            !.isVideoReady = FALSE]

\* startCamera up to its await.
startCamera(c) ==
  [c EXCEPT !.isVideoReady = FALSE, !.pending = @ + 1, !.calls = @ + 1]

\* The render in which isOpen changed: the cleanup of the effect that ran
\* last, with the stream of its render, then the effect with the stream of
\* this render.
effectOnIsOpen(c, isOpen) ==
  LET stream == c.stream
      cleaned == IF c.effectStream # 0 THEN stopCamera(c, c.effectStream) ELSE c
      rendered == [cleaned EXCEPT !.isOpen = isOpen, !.effectStream = stream,
                                  !.srcObject = IF isOpen THEN @ ELSE 0]
  IN  IF isOpen /\ stream = 0 THEN startCamera(rendered)
      ELSE IF ~isOpen /\ stream # 0 THEN stopCamera(rendered, stream)
      ELSE rendered

\* The camera button of the InputForm: setIsCameraOpen(true).
CameraOpen ==
  /\ deployment = "camera"
  /\ ~camera.isOpen
  /\ camera.stream = 0 => camera.calls < MaxCameraCalls
  /\ camera' = effectOnIsOpen(camera, TRUE)
  /\ CameraFrame

\* getUserMedia resolves with a new stream: setStream, and the video of an
\* open dialog gets it.
CameraStreamResolves ==
  /\ deployment = "camera"
  /\ camera.pending > 0
  /\ LET mediaStream == camera.calls - camera.pending + 1
     IN  camera' = [camera EXCEPT !.pending = @ - 1,
                                  !.live = @ \cup {mediaStream},
                                  !.stream = mediaStream,
                                  !.srcObject = IF camera.isOpen THEN mediaStream ELSE @]
  /\ CameraFrame

\* getUserMedia rejects: the catch block calls onClose().
CameraStreamRejects ==
  /\ deployment = "camera"
  /\ camera.pending > 0
  /\ LET c == [camera EXCEPT !.pending = @ - 1]
     IN  camera' = IF c.isOpen THEN effectOnIsOpen(c, FALSE) ELSE c
  /\ CameraFrame

\* The video of the open dialog has loaded the metadata of its stream.
CameraLoadedMetadata ==
  /\ deployment = "camera"
  /\ camera.isOpen
  /\ camera.srcObject \in camera.live
  /\ ~camera.isVideoReady
  /\ camera' = [camera EXCEPT !.isVideoReady = TRUE]
  /\ CameraFrame

\* capturePhoto, when the video is ready and shows a frame.
capturePhoto ==
  /\ deployment = "camera"
  /\ camera.isOpen
  /\ ~camera.capturedImage
  /\ camera.isVideoReady
  /\ camera.srcObject \in camera.live
  /\ camera' = [camera EXCEPT !.capturedImage = TRUE]
  /\ CameraFrame

retakePhoto ==
  /\ deployment = "camera"
  /\ camera.isOpen
  /\ camera.capturedImage
  /\ camera' = [camera EXCEPT !.capturedImage = FALSE]
  /\ CameraFrame

\* The close button of the open dialog: stopCamera of the current render,
\* then onClose(), in one event handler.
handleClose ==
  /\ deployment = "camera"
  /\ camera.isOpen
  /\ camera' = effectOnIsOpen(stopCamera([camera EXCEPT !.capturedImage = FALSE],
                                          camera.stream), FALSE)
  /\ CameraFrame

NextCamera ==
  \/ CameraOpen
  \/ CameraStreamResolves
  \/ CameraStreamRejects
  \/ CameraLoadedMetadata
  \/ capturePhoto
  \/ retakePhoto
  \/ handleClose

SpecCamera == InitCamera /\ [][NextCamera]_vars

\* C30: no camera stream stays live while the dialog is closed: in every
\* order of opening, closing and the settling of getUserMedia, once the
\* dialog is closed and no call of getUserMedia is pending, every stream
\* that was obtained has its tracks stopped.
NoLiveStreamWhileClosed ==
  deployment = "camera" =>
    ((~camera.isOpen /\ camera.pending = 0) => camera.live = {})

====
